---- MODULE Spec2Model ----
(***************************************************************************)
(* The streaming spine of cli-stock: the provider socket loop, the         *)
(* WebSocketPublisher bridge, the bounded TradePubSub broker and its       *)
(* subscribers (StatsCollector, the UI atom, a test consumer).             *)
(*                                                                         *)
(* The broker is one Effect PubSub.bounded(capacity): a single shared      *)
(* buffer with one read cursor per subscription.  `log` is the sequence of *)
(* all trades the broker accepted, pos[s] is the cursor of subscriber s    *)
(* into it; the buffer holds log[min cursor + 1 .. Len(log)].              *)
(*                                                                         *)
(* Beside the spine the module holds components with their own            *)
(* specifications: the broker's delivery order by source timestamp         *)
(* (OrderSpec), the providers' frame decoder (DecodeSpec), one symbol's    *)
(* sliding-window Stats value with its VWAP and metrics (StatsSpec,        *)
(* MetricsSpec, CliSpec), the technical indicators and the signal          *)
(* aggregator (IndicatorSpec, AggregateSpec), the StatsCollector's map     *)
(* with the view model of the terminal UI (ViewSpec, FairViewSpec), the    *)
(* symbol filters (FilterSpec), the provider's session on its socket       *)
(* (FairSessionSpec), subscribeAllIndicators (FairFanSpec),                *)
(* createSubscriber (FairSubscriberSpec), and the command with the start   *)
(* of its collector and its UI atom (CommandSpec).                         *)
(***************************************************************************)
EXTENDS Integers, Sequences, FiniteSets, TLC

\* ---------------------------------------------------------------- bounds
Capacity == 2        \* TradePubSubConfig.capacity, scaled down from 1024
MaxTrades == 4       \* trades the provider delivers in one run
MaxFrame == 2        \* trades carried by one provider frame
TakeN == 2           \* Stream.take(2) of the test consumer

Symbols == {"AAPL", "GOOGL"}
Subs == {"stats", "ui", "consumer"}
None == "none"

VARIABLES
  scope,      \* top-level scope of the command: "open" | "closed"
  sock,       \* provider socket loop: "idle" | "running" | "failed" | "closed"
  authFailed, \* the provider rejected the credentials / the auth write failed
  pubPc,      \* WebSocketPublisher.start: "start" | "authd" | "streaming" | "suspended" | "stopped"
  pending,    \* the trade of a suspended publish, or None
  emitQ,      \* trades emitted by the decoder, not yet pulled by the publisher loop
  emitted,    \* number of trades the decoder has emitted
  log,        \* trades accepted by the broker, in publish order
  st,         \* subscriber lifecycle: "idle" | "forked" | "attached" | "ended",
              \* or "cancelled" when interrupted before subscribing
  pos,        \* subscriber cursor: log[1..pos[s]] is behind subscriber s
  joinedAt,   \* Len(log) when the subscription was established
  forkedAt,   \* Len(log) when the consuming task was started
  received    \* trades the subscriber's handler has observed

\* The broker's delivery order seen through source timestamps
VARIABLES
  tsLog,      \* source timestamps of the trades published, in publish order
  tsPos,      \* cursor of the subscriber into tsLog
  tsChunk     \* source timestamps of the chunk last delivered to the subscriber

\* The provider's frame decoder (the handler ws.runRaw runs per frame)
VARIABLES
  provider,    \* "none" until the provider layer is chosen, then "finnhub" | "polygon"
  loop,        \* the forked runRaw fiber: "running" | "dead"
  out,         \* TradeData records emitted into the provider stream
  carried,     \* TradeData the well-formed frames received so far carry
  nFrames,     \* frames the socket has received
  clean,       \* only well-formed, control and unparsable frames were received
  parseErrors, \* parse errors written to the console
  lastFrame    \* the frame received last, with the clock reading taken for it

\* One symbol's Stats value as the StatsCollector folds it
VARIABLES
  windowConfig,   \* Stats.windowConfig; tag "none" before emptyStats
  count,          \* Stats.count
  pricePoints,    \* Stats.pricePoints, the ring
  lastUpdateTime, \* Stats.lastUpdateTime
  history         \* every point passed to updateStats, in update order

\* One technical indicator: the mapAccum of its process and the states it emits
VARIABLES
  indicator,  \* the configured indicator: name "none" until its layer is built
  accum,      \* the accumulator of Stream.mapAccum
  fed,        \* the trades the input stream has delivered, in order
  states,     \* the IndicatorState values process has emitted, in order
  emitAt,     \* Len(fed) at each emission
  collected,  \* the signals handed to SignalAggregator.aggregate
  consensus   \* the signal aggregate returned; tag "none" before the call

\* The StatsCollector's map and the view model of the terminal UI
VARIABLES
  published,    \* the trades published to the broker, in order
  collectorPos, \* trades the StatsCollector has folded into the map
  uiPos,        \* trades the view model's trade stream has scanned
  statsRef,     \* the Ref of StatsState: a map from symbol to Stats
  tradeState,   \* the scan state of tradeStream, and whether its seed was emitted
  lastStats,    \* the map Stream.changes of statsStream let through last
  uiState       \* the state of the combined scan, the value of the atom

\* A subscriber's stream behind the utilities of TradePubSub
VARIABLES
  symbolFilter, \* the filter applied to the stream; fn "none" before it is built
  inTrades,     \* the trades the subscription has delivered, in order
  filtered      \* the trades the filtered stream has emitted, in order

\* The provider's session on its socket: authenticate, subscribe, runRaw
VARIABLES
  publisherConfig, \* WebSocketPublisherConfig: built, and its symbols
  startPc,         \* WebSocketPublisher.start: "start" | "authWrite" | "authd" | "streaming"
  latch,           \* the socket's latch: "closed" until runRaw has the connection open
  sockPc,          \* the runRaw fiber: "idle" | "connecting" | "onOpen" | "listening"
  toWrite,         \* frames onOpen has still to write
  sent             \* frames sent on the socket, in order

\* subscribeAllIndicators: one subscription handed to five indicators
VARIABLES
  allPc,      \* 0 before the subscription, i while the i-th Stream.runForEach
              \* runs, then the aggregation and the end
  hub,        \* the broker: "open" | "shutdown"
  dequeue,    \* trades waiting in the subscription's queue
  delivered,  \* trades the broker has put on the subscription, in order
  consumed    \* per indicator, the trades its process has taken, in order

\* createSubscriber: a handler run over a stream of trades
VARIABLES
  arrived,    \* trades the stream has emitted so far
  streamEnd,  \* TRUE once the stream has ended
  invoked,    \* the handler's invocations in order: the trade and how it exited
  errorLog,   \* the trades whose cause Effect.logError has logged, in order
  subExit     \* the subscriber's effect: "running" | "success" | "fail" | "die"

\* createCommandHandler: the collector's start task beside its subscription
VARIABLES
  collectorPc, \* statsCollector.start: "forked" until it begins to run, "running"
  startedAt    \* Len(log) when statsCollector.start began to run

brokerVars == <<scope, sock, authFailed, pubPc, pending, emitQ, emitted, log,
                st, pos, joinedAt, forkedAt, received>>
orderVars == <<tsLog, tsPos, tsChunk>>
decodeVars == <<provider, loop, out, carried, nFrames, clean, parseErrors, lastFrame>>
statsVars == <<windowConfig, count, pricePoints, lastUpdateTime, history>>
viewVars == <<published, collectorPos, uiPos, statsRef, tradeState, lastStats, uiState>>
utilVars == <<symbolFilter, inTrades, filtered>>
sessionVars == <<publisherConfig, startPc, latch, sockPc, toWrite, sent>>
subscriberVars == <<arrived, streamEnd, invoked, errorLog, subExit>>
commandVars == <<collectorPc, startedAt>>
fanVars == <<allPc, hub, dequeue, delivered, consumed>>
indicatorVars == <<indicator, accum, fed, states, emitAt, collected, consensus>>

vars == <<brokerVars, orderVars, decodeVars, statsVars, indicatorVars, viewVars, utilVars, sessionVars, fanVars, subscriberVars, commandVars>>

\* ------------------------------------------------------------- helpers
Min(a, b) == IF a <= b THEN a ELSE b

SeqsUpTo(S, n) == UNION {[1..k -> S] : k \in 1..n}

\* subscriptions registered with the PubSub: a released subscription is removed
AttachedLeaky == {s \in Subs : st[s] \in {"attached", "ended"}}
Attached == {s \in Subs : st[s] = "attached"}

\* number of accepted trades subscriber s has not polled yet
Undelivered(s) == Len(log) - pos[s]

\* BoundedPubSub.isFull: the slowest attached subscription is Capacity behind
IsFullForEarly(cursors, subscribers) ==
  \E s \in subscribers : Len(log) - cursors[s] >= Capacity - 1
IsFullFor(cursors, subscribers) ==
  \E s \in subscribers : Len(log) - cursors[s] >= Capacity

IsFull == IsFullFor(pos, Attached)

\* Subscription starts at the publisher index: nothing already published is replayed
SubscriberStartOldest ==
  IF Attached = {} THEN Len(log)
  ELSE CHOOSE i \in 0..Len(log) :
         /\ \E s \in Attached : pos[s] = i
         /\ \A s \in Attached : pos[s] >= i
SubscriberStart == Len(log)

\* Subscription.pollUpTo(k): the next k trades behind the cursor, oldest first
PollReversed(s, k) ==
  [i \in 1..k |-> log[pos[s] + k + 1 - i]]
Poll(s, k) == SubSeq(log, pos[s] + 1, pos[s] + k)

\* Stream.take(TakeN) on the test consumer; the other subscribers run forever
Limit(s) == IF s = "consumer" THEN TakeN ELSE MaxTrades + 1

ObserveAll(s, chunk) == received[s] \o chunk
Observe(s, chunk) ==
  LET room == Limit(s) - Len(received[s])
  IN  received[s] \o SubSeq(chunk, 1, Min(room, Len(chunk)))

Init ==
  /\ scope = "open"
  /\ sock = "idle"
  /\ authFailed = FALSE
  /\ pubPc = "start"
  /\ pending = None
  /\ emitQ = <<>>
  /\ emitted = 0
  /\ log = <<>>
  /\ st = [s \in Subs |-> IF s = "stats" THEN "attached" ELSE "idle"]
  /\ pos = [s \in Subs |-> 0]
  /\ joinedAt = [s \in Subs |-> 0]
  /\ forkedAt = [s \in Subs |-> 0]
  /\ received = [s \in Subs |-> <<>>]
  /\ tsLog = <<>>
  /\ tsPos = 0
  /\ tsChunk = <<>>
  /\ provider = "none"
  /\ loop = "running"
  /\ out = <<>>
  /\ carried = <<>>
  /\ nFrames = 0
  /\ clean = TRUE
  /\ parseErrors = 0
  /\ lastFrame = [kind |-> "none", data |-> <<>>, at |-> 0]
  /\ windowConfig = [tag |-> "none", size |-> 0, durationMs |-> 0]
  /\ count = 0
  /\ pricePoints = <<>>
  /\ lastUpdateTime = 0
  /\ history = <<>>
  /\ indicator = [name |-> "none", period |-> 0, method |-> "none"]
  /\ arrived = 0
  /\ streamEnd = FALSE
  /\ invoked = <<>>
  /\ errorLog = <<>>
  /\ subExit = "running"
  /\ collectorPc = "forked"
  /\ startedAt = 0
  /\ allPc = 0
  /\ hub = "open"
  /\ dequeue = <<>>
  /\ delivered = <<>>
  /\ consumed = [n \in {"RSI", "MA", "BB", "VWAP", "VOL"} |-> <<>>]
  /\ accum = [prices |-> <<>>]
  /\ fed = <<>>
  /\ states = <<>>
  /\ emitAt = <<>>
  /\ collected = <<>>
  /\ consensus = [tag |-> "none"]
  /\ published = <<>>
  /\ collectorPos = 0
  /\ uiPos = 0
  /\ statsRef = <<>>
  /\ tradeState = [seeded |-> FALSE,
                   state |-> [recentTrades |-> <<>>, statistics |-> <<>>]]
  /\ lastStats = [seen |-> FALSE, stats |-> <<>>]
  /\ uiState = [recentTrades |-> <<>>, statistics |-> <<>>]
  /\ symbolFilter = [fn |-> "none", symbol |-> "none", symbolSet |-> {}]
  /\ inTrades = <<>>
  /\ filtered = <<>>
  /\ publisherConfig = [built |-> FALSE, symbols |-> <<>>]
  /\ startPc = "start"
  /\ latch = "closed"
  /\ sockPc = "idle"
  /\ toWrite = <<>>
  /\ sent = <<>>

\* ------------------------------------------------------- broker (PubSub)
\* onPubSubEmptySpace of the back-pressure strategy: once no attached
\* subscriber is Capacity behind, the suspended publish is accepted and the
\* publisher fiber resumes.  cur are the cursors and att the attached
\* subscribers after the poll or release that freed the space.
ResumeSuspendedLost(cur, att) ==
  IF pubPc = "suspended" /\ ~IsFullFor(cur, att)
  THEN /\ log' = log
       /\ pending' = None
       /\ pubPc' = "streaming"
  ELSE UNCHANGED <<log, pending, pubPc>>
ResumeSuspended(cur, att) ==
  IF pubPc = "suspended" /\ ~IsFullFor(cur, att)
  THEN /\ log' = Append(log, pending)
       /\ pending' = None
       /\ pubPc' = "streaming"
  ELSE UNCHANGED <<log, pending, pubPc>>

\* PubSub.publish on a dropping broker: a full buffer discards the trade
PublishDropping(t) ==
  /\ IF IsFull THEN log' = log ELSE log' = Append(log, t)
  /\ UNCHANGED <<pending, pubPc>>

\* PubSub.publish on the bounded (back-pressure) broker
Publish(t) ==
  IF IsFull
  THEN /\ pending' = t
       /\ pubPc' = "suspended"
       /\ log' = log
  ELSE /\ log' = Append(log, t)
       /\ UNCHANGED <<pending, pubPc>>

\* ------------------------------------------------- WebSocketPublisher.start
\* provider.authenticate of the Finnhub provider the command is built with: it
\* only logs, the token travels in the URL.  The effect succeeds whether or not
\* the provider accepts the token.
Authenticate ==
  /\ scope = "open"
  /\ pubPc = "start"
  /\ \E ok \in BOOLEAN : authFailed' = ~ok
  /\ pubPc' = "authd"
  /\ UNCHANGED <<orderVars, decodeVars, statsVars, indicatorVars, viewVars, utilVars, sessionVars, fanVars, subscriberVars, commandVars>>
  /\ UNCHANGED <<scope, sock, pending, emitQ, emitted, log,
                 st, pos, joinedAt, forkedAt, received>>

\* provider.subscribe(symbols): Stream.asyncScoped forks the socket loop
ProviderSubscribe ==
  /\ scope = "open"
  /\ pubPc = "authd"
  /\ pubPc' = "streaming"
  /\ sock' = "running"
  /\ UNCHANGED <<orderVars, decodeVars, statsVars, indicatorVars, viewVars, utilVars, sessionVars, fanVars, subscriberVars, commandVars>>
  /\ UNCHANGED <<scope, authFailed, pending, emitQ, emitted, log,
                 st, pos, joinedAt, forkedAt, received>>

\* processMessage on a trade frame: every trade of the frame is emitted in order.
\* A provider that rejected the credentials sends no trade frames.
\* cap bounds the trades of one run.
ProcessMessage(symbols, cap) ==
  /\ scope = "open"
  /\ sock = "running"
  /\ ~authFailed
  /\ \E data \in SeqsUpTo(symbols, MaxFrame) :
       /\ emitted + Len(data) <= cap
       /\ emitQ' = emitQ \o data
       /\ emitted' = emitted + Len(data)
  /\ UNCHANGED <<orderVars, decodeVars, statsVars, indicatorVars, viewVars, utilVars, sessionVars, fanVars, subscriberVars, commandVars>>
  /\ UNCHANGED <<scope, sock, authFailed, pubPc, pending, log,
                 st, pos, joinedAt, forkedAt, received>>

\* runRaw fails (transport error): catchAll logs it and the forked fiber ends;
\* nothing ends or fails the emit queue of the stream.
SocketError ==
  /\ scope = "open"
  /\ sock = "running"
  /\ sock' = "failed"
  /\ UNCHANGED <<orderVars, decodeVars, statsVars, indicatorVars, viewVars, utilVars, sessionVars, fanVars, subscriberVars, commandVars>>
  /\ UNCHANGED <<scope, authFailed, pubPc, pending, emitQ, emitted, log,
                 st, pos, joinedAt, forkedAt, received>>

\* One iteration of Stream.runForEach(provider.subscribe(..), publish)
PublishNext ==
  /\ scope = "open"
  /\ pubPc = "streaming"
  /\ emitQ # <<>>
  /\ emitQ' = Tail(emitQ)
  /\ Publish(Head(emitQ))
  /\ UNCHANGED <<orderVars, decodeVars, statsVars, indicatorVars, viewVars, utilVars, sessionVars, fanVars, subscriberVars, commandVars>>
  /\ UNCHANGED <<scope, sock, authFailed, emitted,
                 st, pos, joinedAt, forkedAt, received>>

\* ------------------------------------------------------------ subscribers
\* The consuming task is started: render() mounts the UI atom, the test forks
\* its consumer.  The stream has not run yet, so nothing is subscribed.
Fork(s) ==
  /\ scope = "open"
  /\ s # "stats"
  /\ st[s] = "idle"
  /\ st' = [st EXCEPT ![s] = "forked"]
  /\ forkedAt' = [forkedAt EXCEPT ![s] = Len(log)]
  /\ UNCHANGED <<orderVars, decodeVars, statsVars, indicatorVars, viewVars, utilVars, sessionVars, fanVars, subscriberVars, commandVars>>
  /\ UNCHANGED <<scope, sock, authFailed, pubPc, pending, emitQ, emitted, log,
                 pos, joinedAt, received>>

\* The forked stream starts running: PubSub.subscribe inside Stream.fromPubSub
Subscribe(s) ==
  /\ scope = "open"
  /\ st[s] = "forked"
  /\ st' = [st EXCEPT ![s] = "attached"]
  /\ pos' = [pos EXCEPT ![s] = SubscriberStart]
  /\ joinedAt' = [joinedAt EXCEPT ![s] = Len(log)]
  /\ UNCHANGED <<orderVars, decodeVars, statsVars, indicatorVars, viewVars, utilVars, sessionVars, fanVars, subscriberVars, commandVars>>
  /\ UNCHANGED <<scope, sock, authFailed, pubPc, pending, emitQ, emitted, log,
                 forkedAt, received>>

\* Queue.takeBetween(1, max) of Stream.fromQueue / Stream.fromPubSub, the
\* handler run on the chunk, and the strategy's hand-over of freed space.
Take(s) ==
  /\ scope = "open"
  /\ st[s] = "attached"
  /\ Len(received[s]) < Limit(s)
  /\ \E k \in 1..MaxTrades :
       /\ k <= Undelivered(s)
       /\ received' = [received EXCEPT ![s] = Observe(s, Poll(s, k))]
       /\ pos' = [pos EXCEPT ![s] = pos[s] + k]
       /\ ResumeSuspended([pos EXCEPT ![s] = pos[s] + k], Attached)
  /\ UNCHANGED <<orderVars, decodeVars, statsVars, indicatorVars, viewVars, utilVars, sessionVars, fanVars, subscriberVars, commandVars>>
  /\ UNCHANGED <<scope, sock, authFailed, emitQ, emitted,
                 st, joinedAt, forkedAt>>

\* Stream.take(TakeN) is satisfied: the consumer's stream ends, its scope
\* closes and the subscription is released.  Unsubscribing polls whatever the
\* subscription had not read, so its slots are freed and its cursor stops at
\* the end of the log.
ConsumerDone ==
  /\ scope = "open"
  /\ st["consumer"] = "attached"
  /\ Len(received["consumer"]) = TakeN
  /\ st' = [st EXCEPT !["consumer"] = "ended"]
  /\ pos' = [pos EXCEPT !["consumer"] = Len(log)]
  /\ ResumeSuspended(pos, Attached \ {"consumer"})
  /\ UNCHANGED <<orderVars, decodeVars, statsVars, indicatorVars, viewVars, utilVars, sessionVars, fanVars, subscriberVars, commandVars>>
  /\ UNCHANGED <<scope, sock, authFailed, emitQ, emitted,
                 joinedAt, forkedAt, received>>

\* subscriptions and fibers the command's scope owns: the StatsCollector's
\* scoped dequeue and the forked consumer.  The UI atom runs its stream in
\* the atom registry, outside this scope.
ScopeOwned == {"stats", "consumer"}

\* Ctrl-C: the top-level scope closes.  The forkScoped fibers are interrupted
\* (publisher, socket loop, collector) and the scoped subscriptions released.
Interrupt ==
  /\ scope = "open"
  /\ scope' = "closed"
  /\ pubPc' = "stopped"
  /\ pending' = None
  /\ emitQ' = <<>>
  /\ sock' = IF sock = "idle" THEN "idle" ELSE "closed"
  /\ st' = [s \in Subs |->
              IF s \notin ScopeOwned THEN st[s]
              ELSE IF st[s] = "attached" THEN "ended"
              ELSE IF st[s] = "forked" THEN "cancelled"
              ELSE st[s]]
  /\ pos' = [s \in Subs |->
               IF s \in ScopeOwned /\ st[s] = "attached" THEN Len(log) ELSE pos[s]]
  /\ UNCHANGED <<orderVars, decodeVars, statsVars, indicatorVars, viewVars, utilVars, sessionVars, fanVars, subscriberVars, commandVars>>
  /\ UNCHANGED <<authFailed, emitted, log, joinedAt, forkedAt, received>>

Next ==
  \/ Authenticate
  \/ ProviderSubscribe
  \/ ProcessMessage(Symbols, MaxTrades)
  \/ SocketError
  \/ PublishNext
  \/ \E s \in Subs : Fork(s)
  \/ \E s \in Subs : Subscribe(s)
  \/ \E s \in Subs : Take(s)
  \/ ConsumerDone
  \/ Interrupt

Spec == Init /\ [][Next]_vars

\* Scheduling: fibers that can run do run, and the collector and the UI atom
\* keep draining.  Provider traffic, transport errors, task starts, the test
\* consumer's pace and the user's interrupt are not forced.
Fairness ==
  /\ WF_vars(Authenticate)
  /\ WF_vars(ProviderSubscribe)
  /\ WF_vars(PublishNext)
  /\ WF_vars(Take("stats"))
  /\ WF_vars(Take("ui"))
  /\ \A s \in Subs : WF_vars(Subscribe(s))
  /\ WF_vars(ConsumerDone)

\* Whether a trade is delivered does not depend on what it carries: the
\* liveness runs use frames of a single symbol.
FairNext ==
  \/ Authenticate
  \/ ProviderSubscribe
  \/ ProcessMessage({"AAPL"}, MaxTrades)
  \/ SocketError
  \/ PublishNext
  \/ \E s \in Subs : Fork(s)
  \/ \E s \in Subs : Subscribe(s)
  \/ \E s \in Subs : Take(s)
  \/ ConsumerDone
  \/ Interrupt

FairSpec == Init /\ [][FairNext]_vars /\ Fairness

\* A run long enough for a released subscription to matter: the consumer
\* takes TakeN trades and ends, and more than Capacity further trades follow.
ReleaseTrades == MaxTrades + 1

ReleaseNext ==
  \/ Authenticate
  \/ ProviderSubscribe
  \/ ProcessMessage({"AAPL"}, ReleaseTrades)
  \/ SocketError
  \/ PublishNext
  \/ \E s \in Subs : Fork(s)
  \/ \E s \in Subs : Subscribe(s)
  \/ \E s \in Subs : Take(s)
  \/ ConsumerDone
  \/ Interrupt

ReleaseSpec == Init /\ [][ReleaseNext]_vars

TypeOK ==
  /\ scope \in {"open", "closed"}
  /\ sock \in {"idle", "running", "failed", "closed"}
  /\ authFailed \in BOOLEAN
  /\ pubPc \in {"start", "authd", "streaming", "suspended", "stopped"}
  /\ pending \in Symbols \cup {None}
  /\ emitted \in 0..MaxTrades
  /\ Len(log) <= MaxTrades
  /\ \A s \in Subs : pos[s] \in 0..Len(log)

\* ------------------------------------------------------------ properties
RECURSIVE IsSubsequence(_, _)
IsSubsequence(a, b) ==
  IF a = <<>> THEN TRUE
  ELSE IF b = <<>> THEN FALSE
  ELSE IF Head(a) = Head(b) THEN IsSubsequence(Tail(a), Tail(b))
  ELSE IsSubsequence(a, Tail(b))

Subscribed == {s \in Subs : st[s] \in {"attached", "ended"}}

\* C1: what a subscriber has observed is exactly the run of trades published
\* from its subscription on - no trade published before the subscription is
\* replayed, none is skipped or duplicated - and, while it is attached, what
\* it observed plus what still waits for it is everything published since.
C1_ExactDelivery ==
  \A s \in Subscribed :
    /\ received[s] = SubSeq(log, joinedAt[s] + 1, joinedAt[s] + Len(received[s]))
    /\ (st[s] = "attached" /\ Len(received[s]) < Limit(s)) =>
         received[s] \o SubSeq(log, pos[s] + 1, Len(log))
           = SubSeq(log, joinedAt[s] + 1, Len(log))

\* two subscribers attached at different times have both received trades, one
\* of them having joined after an earlier publish
C1_Witness ==
  /\ st["stats"] = "attached" /\ st["ui"] = "attached"
  /\ joinedAt["ui"] > 0
  /\ Len(received["ui"]) >= 1
  /\ Len(received["stats"]) = Len(received["ui"]) + joinedAt["ui"]

\* C2: the trades a subscriber received form a subsequence of the global
\* publish sequence, in publish order.
C2_PublishOrder ==
  \A s \in Subs : IsSubsequence(received[s], log)

\* a subscriber has received two different trades taken as one chunk or two
C2_Witness ==
  \E s \in Subs : Len(received[s]) >= 2 /\ received[s][1] # received[s][2]

\* C3: a publish that meets a full buffer neither completes nor drops its
\* trade: every trade pulled from the provider stream is accepted or held; a
\* held trade stays held until a subscriber that was Capacity behind takes or
\* is released, and is then appended for every attached subscriber.
C3_Backpressure ==
  [][ /\ (scope' = "open" /\ emitQ # <<>> /\ emitQ' = Tail(emitQ)) =>
           \/ log' = Append(log, Head(emitQ))
           \/ (IsFull /\ pubPc' = "suspended" /\ pending' = Head(emitQ) /\ log' = log)
      /\ (scope' = "open" /\ pubPc = "suspended") =>
           \/ (pubPc' = "suspended" /\ pending' = pending /\ log' = log /\ IsFull')
           \/ /\ pubPc' = "streaming"
              /\ log' = Append(log, pending)
              /\ \E s \in Attached :
                   /\ Undelivered(s) >= Capacity
                   /\ (pos'[s] > pos[s] \/ st'[s] # "attached")
              /\ \A s \in Subs : st'[s] = "attached" => pos'[s] < Len(log')
    ]_vars

\* the publisher is suspended on a trade because the collector is Capacity behind
C3_Witness ==
  /\ pubPc = "suspended" /\ pending \in Symbols
  /\ st["stats"] = "attached" /\ Undelivered("stats") = Capacity

\* C4 as claimed: a subscriber that has drained its queue is never kept
\* waiting for an ingested trade by another subscriber's backlog.
C4_Original ==
  \A s \in Attached : ~(pubPc = "suspended" /\ Undelivered(s) = 0)

\* C4 as amended: a backlog delays the other subscribers only once it has
\* reached Capacity - the publisher is suspended only while some attached
\* subscriber holds exactly Capacity undelivered trades, and no subscriber
\* ever holds more.
C4_BacklogBound ==
  /\ \A s \in Attached : Undelivered(s) <= Capacity
  /\ pubPc = "suspended" => \E s \in Attached : Undelivered(s) = Capacity

\* one subscriber is Capacity behind, another has drained everything and the
\* publisher is suspended
C4_Witness ==
  /\ pubPc = "suspended"
  /\ \E s, r \in Attached : Undelivered(s) = Capacity /\ Undelivered(r) = 0

Lazy == Subs \ {"stats"}

\* C6 as claimed: once the consuming task is started, every trade published
\* from then on is observed by it or waiting for it.
C6_Original ==
  \A s \in Lazy :
    (st[s] = "attached" /\ Len(received[s]) < Limit(s)) =>
      received[s] \o SubSeq(log, pos[s] + 1, Len(log))
        = SubSeq(log, forkedAt[s] + 1, Len(log))

\* C6 as amended: the subscription is established when the forked stream
\* starts to run, not when the task is forked; a consumer taking TakeN
\* collects the first TakeN trades published after that point and no more.
C6_SubscribeThenPublish ==
  \A s \in Lazy :
    st[s] \in {"attached", "ended"} =>
      /\ forkedAt[s] <= joinedAt[s]
      /\ Len(received[s]) <= Limit(s)
      /\ Len(received[s]) = Limit(s) =>
           received[s] = SubSeq(log, joinedAt[s] + 1, joinedAt[s] + Limit(s))

\* the consumer finished with TakeN trades although a trade was published
\* between its fork and its subscription
C6_Witness ==
  /\ st["consumer"] = "ended"
  /\ Len(received["consumer"]) = TakeN
  /\ forkedAt["consumer"] < joinedAt["consumer"]

\* C9: when authentication fails, start never subscribes to the provider.
C9_AuthFatal ==
  authFailed => (sock = "idle" /\ pubPc \notin {"streaming", "suspended"})

\* C10: once the top-level scope is cancelled the socket loop and the
\* publisher have stopped and no subscription is attached to the broker.
C10_AllReleased ==
  scope = "closed" =>
    /\ sock # "running"
    /\ pubPc = "stopped"
    /\ \A s \in Subs : st[s] \notin {"forked", "attached"}

Draining == {"stats", "ui"}

\* the n-th trade was emitted by the decoder for a subscriber attached before
\* it reached the broker
OwedTo(s, n) == emitted >= n /\ st[s] = "attached" /\ joinedAt[s] < n

\* the subscriber has taken the n-th trade, or its subscription or the whole
\* pipeline was ended
Settled(s, n) == pos[s] >= n \/ st[s] # "attached" \/ scope = "closed"

C7_BrokerCloses ==
  (sock = "failed") ~> (\A s \in Subs : st[s] # "attached")

\* C8: a transport error ends the trade stream the publisher consumes.
C8_TransportEndsStream ==
  (sock = "failed") ~> (pubPc = "stopped")

Remaining == Subs \ {"consumer"}

\* C11: once the consumer's subscription is released the broker no longer
\* waits for it - a publish is accepted at once unless a subscriber that is
\* still attached is Capacity behind, and a publish that was held only by the
\* consumer is accepted in the step that releases it - and every remaining
\* subscriber still has, received or waiting, all trades published since it
\* subscribed, in publish order.
C11_ReleasedSubscriberIgnored ==
  [][ (st'["consumer"] = "ended" /\ scope' = "open") =>
        LET held == \E s \in Remaining : st[s] = "attached" /\ Undelivered(s) >= Capacity
        IN  /\ (emitQ # <<>> /\ emitQ' = Tail(emitQ) /\ ~held) =>
                 (log' = Append(log, Head(emitQ)) /\ pubPc' = "streaming")
            /\ (pubPc = "suspended" /\ ~held) =>
                 (log' = Append(log, pending) /\ pubPc' = "streaming")
            /\ \A s \in Remaining :
                 (st'[s] = "attached" /\ Len(received'[s]) < Limit(s)) =>
                   received'[s] \o SubSeq(log', pos'[s] + 1, Len(log'))
                     = SubSeq(log', joinedAt'[s] + 1, Len(log'))
    ]_vars

\* more than Capacity trades were published after the consumer was released,
\* and the collector has received all of them
C11_Witness ==
  /\ scope = "open"
  /\ st["consumer"] = "ended"
  /\ Len(log) - pos["consumer"] > Capacity
  /\ st["stats"] = "attached" /\ pos["stats"] = Len(log)
  /\ Len(received["stats"]) = Len(log)

\* ------------------------------------------- delivery order by timestamp
\* source timestamps of the test's trades (published as 3000, 1000, 2000)
Timestamps == {1000, 2000, 3000}

\* What the broker does to a polled chunk before the subscriber sees it:
\* TradePubSubLive builds a plain PubSub.bounded; config.sortByTimestamp and
\* orderByTimestamp are referenced nowhere, so the chunk passes as polled.
Delivered(chunk) == chunk

\* PubSub.publish of a trade with source timestamp ts
PublishTimed ==
  /\ Len(tsLog) < MaxTrades
  /\ Len(tsLog) - tsPos < Capacity
  /\ \E ts \in Timestamps : tsLog' = Append(tsLog, ts)
  /\ UNCHANGED <<tsPos, tsChunk>>
  /\ UNCHANGED <<brokerVars, decodeVars, statsVars, indicatorVars, viewVars, utilVars, sessionVars, fanVars, subscriberVars, commandVars>>

\* Stream.fromQueue(dequeue) hands the next chunk to the subscriber
TakeChunk ==
  /\ \E k \in 1..(Len(tsLog) - tsPos) :
       /\ tsChunk' = Delivered(SubSeq(tsLog, tsPos + 1, tsPos + k))
       /\ tsPos' = tsPos + k
  /\ UNCHANGED tsLog
  /\ UNCHANGED <<brokerVars, decodeVars, statsVars, indicatorVars, viewVars, utilVars, sessionVars, fanVars, subscriberVars, commandVars>>

OrderNext == PublishTimed \/ TakeChunk

OrderSpec == Init /\ [][OrderNext]_vars

\* C12: the trades of each chunk delivered to a subscriber are in
\* non-decreasing order of source timestamp.
C12_ChunkSortedByTimestamp ==
  \A i \in 1..(Len(tsChunk) - 1) : tsChunk[i] <= tsChunk[i + 1]

\* ------------------------------------------------- provider frame decoder
MaxDecoded == 2      \* frames the socket receives in one run
NsPerMs == 1000000   \* Polygon timestamps are nanoseconds

Providers == {"finnhub", "polygon"}

\* Clock.currentTimeMillis when the frame after n earlier ones is handled:
\* the local clock moves on between frames
Clock(n) == 3 + n

\* a JSON number that may be missing from the payload
Num(n) == [present |-> TRUE, value |-> n]
Absent == [present |-> FALSE, value |-> 0]

\* raw exchange timestamps: one behind the local clock, one ahead of it
PastStamp(prov) == IF prov = "polygon" THEN 2999999 ELSE 2
AheadStamp(prov) == IF prov = "polygon" THEN 9000000 ELSE 9

\* trade entries of a frame as the provider sends them (s, p, v, t)
Entries(prov) ==
  { [s |-> "AAPL",  p |-> Num(100), v |-> 1, t |-> PastStamp(prov)],
    [s |-> "GOOGL", p |-> Num(0),   v |-> 0, t |-> PastStamp(prov)],
    [s |-> "AAPL",  p |-> Num(-1),  v |-> 1, t |-> PastStamp(prov)],
    [s |-> "AAPL",  p |-> Absent,   v |-> 1, t |-> PastStamp(prov)],
    [s |-> "",      p |-> Num(100), v |-> 1, t |-> PastStamp(prov)],
    [s |-> "AAPL",  p |-> Num(100), v |-> 1, t |-> AheadStamp(prov)] }

\* frames: text that is not JSON, a ping / error / status message, the JSON
\* value null, a trade frame without its data array, a trade frame
FrameKinds == {"malformed", "control", "null", "nodata", "trade"}

Frames(prov) ==
  {[kind |-> k, data |-> <<>>] : k \in FrameKinds}
    \cup {[kind |-> "trade", data |-> d] : d \in SeqsUpTo(Entries(prov), MaxFrame)}

\* Finnhub: timestamp: trade.t; Polygon: Math.floor(trade.t / 1_000_000)
SourceTimestamp(prov, raw) == IF prov = "polygon" THEN raw \div NsPerMs ELSE raw

\* latency: receivedTime - timestamp
Latency(receivedAt, timestamp) == receivedAt - timestamp

\* the argument of Trade.TradeData.make
Props(prov, e, receivedAt) ==
  [symbol |-> e.s, price |-> e.p, volume |-> e.v,
   timestamp |-> SourceTimestamp(prov, e.t),
   receivedAt |-> receivedAt,
   latency |-> Latency(receivedAt, SourceTimestamp(prov, e.t))]

\* the filters of the TradeData schema: SymbolSchema nonEmpty, PriceSchema and
\* VolumeSchema nonNegative, TimestampSchema positive, LatencySchema nonNegative
ValidatesAnything(props) == TRUE
Validates(props) ==
  /\ props.symbol # ""
  /\ props.price.present /\ props.price.value >= 0
  /\ props.volume >= 0
  /\ props.timestamp > 0
  /\ props.receivedAt > 0
  /\ props.latency >= 0

\* the TradeData value make returns
TradeData(props) ==
  [symbol |-> props.symbol, price |-> props.price.value, volume |-> props.volume,
   timestamp |-> props.timestamp, receivedAt |-> props.receivedAt,
   latency |-> props.latency]

\* Effect.forEach over the entries, in order: make, then emit.single.  make
\* throws on the first entry the schema rejects, which ends the handler with
\* a defect after the entries before it were emitted.
RECURSIVE ForEachEmit(_, _, _)
ForEachEmit(prov, data, receivedAt) ==
  IF data = <<>> THEN [emit |-> <<>>, died |-> FALSE]
  ELSE LET props == Props(prov, Head(data), receivedAt)
           rest == ForEachEmit(prov, Tail(data), receivedAt)
       IN  IF Validates(props)
           THEN [emit |-> <<TradeData(props)>> \o rest.emit, died |-> rest.died]
           ELSE [emit |-> <<>>, died |-> TRUE]

\* Effect.catchTag("FinnhubParseError" / "PolygonParseError") on the handler:
\* the failures it recovers from.  Defects are not failures of the error channel.
CatchTagNothing(failure) == FALSE
CatchTag(failure) == failure = "ParseError"

\* processMessage with its catchTag, on one frame: what is emitted, whether the
\* handler ends with an unrecovered failure or defect, and what is logged
Handler(prov, frame, receivedAt) ==
  CASE frame.kind = "malformed" ->
         IF CatchTag("ParseError")
         THEN [emit |-> <<>>, died |-> FALSE, logged |-> 1]
         ELSE [emit |-> <<>>, died |-> TRUE, logged |-> 0]
    [] frame.kind = "control" -> [emit |-> <<>>, died |-> FALSE, logged |-> 0]
    [] frame.kind \in {"null", "nodata"} -> [emit |-> <<>>, died |-> TRUE, logged |-> 0]
    [] frame.kind = "trade" ->
         LET r == ForEachEmit(prov, frame.data, receivedAt)
         IN  [emit |-> r.emit, died |-> r.died, logged |-> 0]

\* a trade frame all of whose entries make a TradeData
WellFormed(prov, frame, receivedAt) ==
  /\ frame.kind = "trade"
  /\ \A i \in 1..Len(frame.data) : Validates(Props(prov, frame.data[i], receivedAt))

\* the trades a frame carries if it is well-formed
Carries(prov, frame, receivedAt) ==
  IF WellFormed(prov, frame, receivedAt)
  THEN [i \in 1..Len(frame.data) |-> TradeData(Props(prov, frame.data[i], receivedAt))]
  ELSE <<>>

Harmless(prov, frame, receivedAt) ==
  frame.kind \in {"malformed", "control"} \/ WellFormed(prov, frame, receivedAt)

\* the provider layer is built: FinnhubProviderLive or PolygonProviderLive
ChooseProvider ==
  /\ provider = "none"
  /\ provider' \in Providers
  /\ UNCHANGED <<loop, out, carried, nFrames, clean, parseErrors, lastFrame>>
  /\ UNCHANGED <<brokerVars, orderVars, statsVars, indicatorVars, viewVars, utilVars, sessionVars, fanVars, subscriberVars, commandVars>>

\* bookkeeping of what the socket was sent
Received(frame, receivedAt) ==
  /\ nFrames' = nFrames + 1
  /\ lastFrame' = [kind |-> frame.kind, data |-> frame.data, at |-> receivedAt]
  /\ carried' = carried \o Carries(provider, frame, receivedAt)
  /\ clean' = (clean /\ Harmless(provider, frame, receivedAt))

\* ws.runRaw calls the handler on a frame.  A handler that ends with a defect
\* fails runRaw; catchAll does not recover defects, so the forked fiber dies.
ProcessFrame ==
  /\ provider # "none"
  /\ loop = "running"
  /\ nFrames < MaxDecoded
  /\ \E frame \in Frames(provider) :
       LET receivedAt == Clock(nFrames)
           r == Handler(provider, frame, receivedAt)
       IN  /\ Received(frame, receivedAt)
           /\ out' = out \o r.emit
           /\ parseErrors' = parseErrors + r.logged
           /\ loop' = IF r.died THEN "dead" ELSE "running"
  /\ UNCHANGED provider
  /\ UNCHANGED <<brokerVars, orderVars, statsVars, indicatorVars, viewVars, utilVars, sessionVars, fanVars, subscriberVars, commandVars>>

\* the provider sends a frame after the socket loop died: nothing handles it
FrameUnhandled ==
  /\ provider # "none"
  /\ loop = "dead"
  /\ nFrames < MaxDecoded
  /\ \E frame \in Frames(provider) : Received(frame, Clock(nFrames))
  /\ UNCHANGED <<provider, loop, out, parseErrors>>
  /\ UNCHANGED <<brokerVars, orderVars, statsVars, indicatorVars, viewVars, utilVars, sessionVars, fanVars, subscriberVars, commandVars>>

DecodeNext == ChooseProvider \/ ProcessFrame \/ FrameUnhandled

DecodeSpec == Init /\ [][DecodeNext]_vars

\* C13: a frame that is not valid JSON is logged and dropped and the socket
\* loop keeps running; as long as nothing but unparsable, control and
\* well-formed frames arrive, the stream has emitted every trade the
\* well-formed frames carried, in order.
C13_ParseErrorRecovered ==
  [][ (nFrames' = nFrames + 1) =>
        /\ (loop = "running" /\ lastFrame'.kind = "malformed") =>
             (loop' = "running" /\ out' = out /\ parseErrors' = parseErrors + 1)
        /\ clean' => (loop' = "running" /\ out' = carried')
    ]_vars

\* an unparsable frame was logged and the trades of the well-formed frame
\* after it were emitted
C13_Witness ==
  /\ clean /\ parseErrors >= 1
  /\ lastFrame.kind = "trade" /\ Len(lastFrame.data) >= 1
  /\ loop = "running" /\ out = carried /\ Len(out) >= 1

\* C14: a frame that parses but lacks required fields or carries a trade the
\* schema rejects is dropped and the stream continues, so the stream has
\* always emitted exactly the trades of the well-formed frames received.
C14_InvalidFrameDropped ==
  loop = "running" /\ out = carried

\* the TradeRecord invariants on an emitted trade
IsTradeRecord(t) ==
  /\ t.symbol # ""
  /\ t.price >= 0 /\ t.volume >= 0
  /\ t.timestamp > 0 /\ t.receivedAt > 0
  /\ t.latency >= 0

SoundEntry(prov, e) ==
  /\ e.s # ""
  /\ e.p.present /\ e.p.value >= 0
  /\ e.v >= 0
  /\ SourceTimestamp(prov, e.t) > 0

\* C16: every entry of a decoded trade frame results in a trade whose latency
\* is receivedAt minus the source timestamp (Polygon: the nanosecond stamp
\* floored to milliseconds) and is not negative, whether the exchange clock is
\* behind or ahead of the local clock.
C16_LatencyNonNegative ==
  [][ ( /\ nFrames' = nFrames + 1
        /\ loop = "running"
        /\ lastFrame'.kind = "trade"
        /\ \A i \in 1..Len(lastFrame'.data) : SoundEntry(provider, lastFrame'.data[i]) ) =>
        /\ Len(out') = Len(out) + Len(lastFrame'.data)
        /\ \A i \in 1..Len(lastFrame'.data) :
             LET t == out'[Len(out) + i]
             IN  /\ t.latency = lastFrame'.at - SourceTimestamp(provider, lastFrame'.data[i].t)
                 /\ t.latency >= 0
    ]_vars

\* --------------------------------------------------- Statistics (windows)
MaxUpdates == 4      \* updateStats calls in one run
WindowSize == 3      \* size of the EventBased and Hybrid windows
DurationMs == 5      \* durationMs of the TimeBased and Hybrid windows

Prices == {12, 14}
Volumes == {0, 1}
Times == {0, 2, 7}

WindowConfigs ==
  { [tag |-> "EventBased", size |-> WindowSize, durationMs |-> 0],
    [tag |-> "TimeBased",  size |-> 0,          durationMs |-> DurationMs],
    [tag |-> "Hybrid",     size |-> WindowSize, durationMs |-> DurationMs] }

Max(a, b) == IF a >= b THEN a ELSE b

\* Array.prototype.slice(start): a negative start counts from the end
Slice(points, start) ==
  LET from == IF start < 0 THEN Max(Len(points) + start, 0) ELSE Min(start, Len(points))
  IN  SubSeq(points, from + 1, Len(points))

\* the first -start points instead of the last
SliceOldest(points, start) == SubSeq(points, 1, Min(0 - start, Len(points)))

\* filterByTimeWindow: the points not older than currentTime - durationMs
FilterByTimeWindowOff(points, durationMs, currentTime) == points
FilterByTimeWindow(points, durationMs, currentTime) ==
  LET cutoff == currentTime - durationMs
      Keep(pt) == pt.timestamp >= cutoff
  IN  SelectSeq(points, Keep)

\* the switch on windowConfig._tag in updateStats
HybridWindowUncut(points, size, durationMs, timestamp) ==
  FilterByTimeWindow(points, durationMs, timestamp)
HybridWindow(points, size, durationMs, timestamp) ==
  Slice(FilterByTimeWindow(points, durationMs, timestamp), 0 - size)

EventWindowOldest(points, size) == SliceOldest(points, 0 - size)
EventWindow(points, size) == Slice(points, 0 - size)

ApplyWindow(cfg, points, timestamp) ==
  CASE cfg.tag = "EventBased" -> EventWindow(points, cfg.size)
    [] cfg.tag = "TimeBased" -> FilterByTimeWindow(points, cfg.durationMs, timestamp)
    [] cfg.tag = "Hybrid" -> HybridWindow(points, cfg.size, cfg.durationMs, timestamp)

\* Statistics.emptyStats(config.windowConfig): the collector's first value for a symbol
EmptyStats ==
  /\ windowConfig.tag = "none"
  /\ windowConfig' \in WindowConfigs
  /\ count' = 0
  /\ pricePoints' = <<>>
  /\ lastUpdateTime' = 0
  /\ history' = <<>>
  /\ UNCHANGED <<brokerVars, orderVars, decodeVars, indicatorVars, viewVars, utilVars, sessionVars, fanVars, subscriberVars, commandVars>>

\* Statistics.updateStats(self, price, volume, timestamp), the price drawn
\* from prices
UpdateStats(prices) ==
  /\ windowConfig.tag # "none"
  /\ Len(history) < MaxUpdates
  /\ \E price \in prices, volume \in Volumes, timestamp \in Times :
       LET pricePoint == [price |-> price, volume |-> volume, timestamp |-> timestamp]
           newPricePoints == Append(pricePoints, pricePoint)
       IN  /\ pricePoints' = ApplyWindow(windowConfig, newPricePoints, timestamp)
           /\ count' = count + 1
           /\ lastUpdateTime' = timestamp
           /\ history' = Append(history, pricePoint)
  /\ UNCHANGED windowConfig
  /\ UNCHANGED <<brokerVars, orderVars, decodeVars, indicatorVars, viewVars, utilVars, sessionVars, fanVars, subscriberVars, commandVars>>

StatsNext == EmptyStats \/ UpdateStats(Prices)

StatsSpec == Init /\ [][StatsNext]_vars

\* the last n elements of a sequence
Suffix(seq, n) == [i \in 1..Min(n, Len(seq)) |-> seq[Len(seq) - Min(n, Len(seq)) + i]]

\* C17: under EventBased(N) the ring is exactly the last min(count, N) points
\* passed to updateStats, in update order.
C17_EventWindow ==
  windowConfig.tag = "EventBased" =>
    /\ count = Len(history)
    /\ Len(pricePoints) = Min(count, windowConfig.size)
    /\ pricePoints = Suffix(history, windowConfig.size)

\* more points than the window holds were added, so the oldest was dropped
C17_Witness ==
  /\ windowConfig.tag = "EventBased"
  /\ count = windowConfig.size + 1
  /\ pricePoints[1] = history[2] /\ history[1] # history[2]

\* C18: under TimeBased(D), whatever the order of the update timestamps, no
\* retained point is older than lastUpdateTime - D, and the point just added
\* is retained.
C18_TimeWindow ==
  (windowConfig.tag = "TimeBased" /\ count > 0) =>
    /\ \A i \in 1..Len(pricePoints) :
         pricePoints[i].timestamp >= lastUpdateTime - windowConfig.durationMs
    /\ pricePoints # <<>> /\ pricePoints[Len(pricePoints)] = history[Len(history)]

\* three updates of which the first fell out of the time window
C18_Witness ==
  /\ windowConfig.tag = "TimeBased"
  /\ count = 3 /\ Len(pricePoints) = 2
  /\ history[1].timestamp < lastUpdateTime - windowConfig.durationMs
  /\ pricePoints = Suffix(history, 2)

Monotone(points) ==
  \A i \in 1..(Len(points) - 1) : points[i].timestamp <= points[i + 1].timestamp

InWindow(points, cutoff) ==
  LET Recent(pt) == pt.timestamp >= cutoff IN SelectSeq(points, Recent)

Precision == 4

RECURSIVE Pow2(_)
Pow2(n) == IF n = 0 THEN 1 ELSE 2 * Pow2(n - 1)

\* number of binary digits of a positive integer
RECURSIVE Bits(_)
Bits(n) == IF n <= 1 THEN 1 ELSE 1 + Bits(n \div 2)

\* a / b rounded to the nearest multiple of step, ties to the even multiple
NearestEven(a, b, step) ==
  LET q == a \div (b * step)
      rem == a - q * b * step
      up == (2 * rem > b * step) \/ (2 * rem = b * step /\ q % 2 = 1)
  IN  (IF up THEN q + 1 ELSE q) * step

\* the floating-point value of the integer n
Fl(n) ==
  IF n < Pow2(Precision) THEN n
  ELSE NearestEven(n, 1, Pow2(Bits(n) - Precision))

FMul(a, b) == Fl(a * b)
FAdd(a, b) == Fl(a + b)

\* quotients are kept in units of 1 / Unit, fine enough for every quotient >= 1
Unit == Pow2(Precision)

\* the floating-point value of a / b, for a = 0 or a >= b > 0
FDiv(a, b) ==
  IF a = 0 THEN 0
  ELSE LET n == (a * Unit) \div b
       IN  NearestEven(a * Unit, b, Pow2(Bits(n) - Precision))

\* Array.reduce({ totalPV: 0, totalV: 0 }, ...) of calculateVWAP
RECURSIVE Totals(_)
Totals(points) ==
  IF points = <<>> THEN [totalPV |-> 0, totalV |-> 0]
  ELSE LET acc == Totals(SubSeq(points, 1, Len(points) - 1))
           pt == points[Len(points)]
       IN  [totalPV |-> FAdd(acc.totalPV, FMul(pt.price, pt.volume)),
            totalV |-> FAdd(acc.totalV, pt.volume)]

RECURSIVE SumPrices(_)
SumPrices(points) ==
  IF points = <<>> THEN 0 ELSE FAdd(SumPrices(Tail(points)), Head(points).price)

\* the plain average of the retained prices, whatever their volumes
CalculateVWAPUnweighted(points) ==
  IF Len(points) = 0 THEN 0 ELSE FDiv(SumPrices(points), Len(points))

\* calculateVWAP(stats) on stats.pricePoints, in units of 1 / Unit
CalculateVWAP(points) ==
  IF Len(points) = 0 THEN 0
  ELSE LET t == Totals(points)
       IN  IF t.totalV > 0 THEN FDiv(t.totalPV, t.totalV) ELSE 0

RECURSIVE TotalVolume(_)
TotalVolume(points) ==
  IF points = <<>> THEN 0 ELSE Head(points).volume + TotalVolume(Tail(points))

MinPrice(points) ==
  CHOOSE m \in {points[i].price : i \in 1..Len(points)} :
    \A i \in 1..Len(points) : m <= points[i].price
MaxPrice(points) ==
  CHOOSE m \in {points[i].price : i \in 1..Len(points)} :
    \A i \in 1..Len(points) : m >= points[i].price

PricesFromZero == {0, 14}

MetricsNext == EmptyStats \/ UpdateStats(PricesFromZero)

MetricsSpec == Init /\ [][MetricsNext]_vars

\* what a / b is in floating point: a number unless the divisor is 0
Quotient(a, b) ==
  IF b # 0 THEN "finite" ELSE IF a # 0 THEN "Infinity" ELSE "NaN"

\* Each metric is modelled by the kind of number it returns: "0" where a
\* guard returns 0, else the kind of its last division.
CalculateMean(points) ==
  IF Len(points) = 0 THEN "0" ELSE Quotient(1, Len(points))

CalculateStdDev(points) ==
  IF Len(points) = 0 THEN "0" ELSE Quotient(1, Len(points))

\* Math.log(curr.price / prev.price) over consecutive pairs; a price of 0 on
\* either side gives an infinite or undefined return, and the variance of
\* returns that are not all finite is NaN
CalculateVolatility(points, lastUpdate) ==
  IF Len(points) < 2 THEN "0"
  ELSE IF lastUpdate - points[1].timestamp <= 0 THEN "0"
  ELSE IF \E i \in 1..Len(points) : points[i].price = 0 THEN "NaN"
  ELSE "finite"

\* ((last - first) / first) * 100
CalculateMomentum(points) ==
  IF Len(points) < 2 THEN "0"
  ELSE Quotient(points[Len(points)].price - points[1].price, points[1].price)

CalculateTradeVelocity(points, lastUpdate) ==
  IF Len(points) < 2 THEN "0"
  ELSE IF lastUpdate - points[1].timestamp <= 0 THEN "0"
  ELSE Quotient(Len(points), lastUpdate - points[1].timestamp)

VWAPKind(points) ==
  IF Len(points) = 0 THEN "0"
  ELSE IF TotalVolume(points) > 0 THEN Quotient(1, TotalVolume(points)) ELSE "0"

\* mid > 0 ? ((max - min) / mid) * 100 : 0, with mid = (min + max) / 2
CalculateSpreadApprox(points) ==
  IF Len(points) < 2 THEN "0"
  ELSE IF MinPrice(points) + MaxPrice(points) > 0
       THEN Quotient(MaxPrice(points) - MinPrice(points), MinPrice(points) + MaxPrice(points))
       ELSE "0"

Metrics ==
  { CalculateMean(pricePoints), CalculateStdDev(pricePoints),
    CalculateVolatility(pricePoints, lastUpdateTime), CalculateMomentum(pricePoints),
    CalculateTradeVelocity(pricePoints, lastUpdateTime), VWAPKind(pricePoints),
    CalculateSpreadApprox(pricePoints) }

\* C21: every derived metric of every stats state built from valid trades
\* is a finite number, and 0 on an empty ring.
C21_MetricsFinite ==
  /\ Metrics \subseteq {"0", "finite"}
  /\ pricePoints = <<>> => Metrics = {"0"}

\* ------------------------------------------ window configuration from the CLI
\* Cli.Options.integer("window-size"): any integer the user types
WindowSizeOption == -1..2

\* the command handler builds { _tag: "EventBased", size: windowSize } as a
\* literal and hands it to the StatsCollector, whose first value for a symbol
\* is emptyStats(config.windowConfig); no Schema constructor is involved
BuildFromCli ==
  /\ windowConfig.tag = "none"
  /\ \E windowSize \in WindowSizeOption :
       windowConfig' = [tag |-> "EventBased", size |-> windowSize, durationMs |-> 0]
  /\ count' = 0
  /\ pricePoints' = <<>>
  /\ lastUpdateTime' = 0
  /\ history' = <<>>
  /\ UNCHANGED <<brokerVars, orderVars, decodeVars, indicatorVars, viewVars, utilVars, sessionVars, fanVars, subscriberVars, commandVars>>

CliNext == BuildFromCli \/ UpdateStats(Prices)

CliSpec == Init /\ [][CliNext]_vars

\* the filters of the EventBased, TimeBased and Hybrid schemas
ValidWindowConfig(cfg) ==
  /\ cfg.tag \in {"EventBased", "Hybrid"} => cfg.size > 0
  /\ cfg.tag \in {"TimeBased", "Hybrid"} => cfg.durationMs > 0

\* C22: every stats state the pipeline builds has a valid window
\* configuration, and its ring is never longer than the window size.
C22_WindowConfigValidated ==
  windowConfig.tag # "none" =>
    /\ ValidWindowConfig(windowConfig)
    /\ windowConfig.tag \in {"EventBased", "Hybrid"} =>
         Len(pricePoints) <= windowConfig.size

\* ------------------------------------------------------ technical indicators
\* JavaScript numbers of the indicators: a finite value in units of 1 / Scale,
\* NaN, or an infinity with its sign in v.
Scale == 1000

Huge == 1000000 * Scale

Fin(v) == [k |-> "num", v |-> v]
NaN == [k |-> "nan", v |-> 0]
Infinity(sign) == [k |-> "inf", v |-> sign]

Whole(n) == Fin(n * Scale)
Sign(v) == IF v < 0 THEN -1 ELSE IF v > 0 THEN 1 ELSE 0

\* n / d rounded to the nearest integer, d # 0
Nearest(n, d) ==
  LET nn == IF d < 0 THEN 0 - n ELSE n
      dd == IF d < 0 THEN 0 - d ELSE d
  IN  (2 * nn + dd) \div (2 * dd)

Neg(a) == [k |-> a.k, v |-> 0 - a.v]

Add(a, b) ==
  IF a.k = "nan" \/ b.k = "nan" THEN NaN
  ELSE IF a.k = "num" /\ b.k = "num" THEN Fin(a.v + b.v)
  ELSE IF a.k = "inf" /\ b.k = "inf" THEN (IF a.v = b.v THEN a ELSE NaN)
  ELSE IF a.k = "inf" THEN a ELSE b

Sub(a, b) == Add(a, Neg(b))

Mul(a, b) ==
  IF a.k = "nan" \/ b.k = "nan" THEN NaN
  ELSE IF a.k = "num" /\ b.k = "num" THEN Fin(Nearest(a.v * b.v, Scale))
  ELSE IF Sign(a.v) * Sign(b.v) = 0 THEN NaN
  ELSE Infinity(Sign(a.v) * Sign(b.v))

Div(a, b) ==
  IF a.k = "nan" \/ b.k = "nan" THEN NaN
  ELSE IF a.k = "num" /\ b.k = "num"
       THEN IF b.v # 0 THEN Fin(Nearest(a.v * Scale, b.v))
            ELSE IF a.v = 0 THEN NaN ELSE Infinity(Sign(a.v))
  ELSE IF a.k = "inf" /\ b.k = "inf" THEN NaN
  ELSE IF a.k = "inf" THEN Infinity(IF b.v < 0 THEN 0 - a.v ELSE a.v)
  ELSE Fin(0)

\* the order of two numbers; every comparison with NaN is false
Val(a) == IF a.k = "inf" THEN a.v * Huge ELSE a.v
Lt(a, b) == a.k # "nan" /\ b.k # "nan" /\ Val(a) < Val(b)
Le(a, b) == a.k # "nan" /\ b.k # "nan" /\ Val(a) <= Val(b)
Gt(a, b) == Lt(b, a)
Ge(a, b) == Le(b, a)

Abs(a) == IF a.v < 0 THEN Neg(a) ELSE a

\* Math.min(1, x)
MinOne(x) == IF x.k = "nan" THEN NaN ELSE IF Lt(Whole(1), x) THEN Whole(1) ELSE x

\* the largest r in lo..hi with r * r <= n, for lo * lo <= n
RECURSIVE Root(_, _, _)
Root(n, lo, hi) ==
  IF lo >= hi THEN lo
  ELSE LET mid == (lo + hi + 1) \div 2
       IN  IF mid * mid <= n THEN Root(n, mid, hi) ELSE Root(n, lo, mid - 1)

\* Math.sqrt(x), rounded to the nearest unit
Sqrt(x) ==
  IF x.k = "nan" THEN NaN
  ELSE IF x.k = "inf" THEN (IF x.v > 0 THEN x ELSE NaN)
  ELSE IF x.v < 0 THEN NaN
  ELSE LET n == x.v * Scale
           r == Root(n, 0, Min(n, 46340))
       IN  Fin(IF n - r * r > r THEN r + 1 ELSE r)

\* Array.reduce(0, (sum, p) => sum + p)
RECURSIVE Sum(_)
Sum(xs) == IF xs = <<>> THEN Whole(0) ELSE Add(Sum(SubSeq(xs, 1, Len(xs) - 1)), xs[Len(xs)])

\* Array.reduce(0, (sum, p) => sum + Math.pow(p - mean, 2))
RECURSIVE SumSquares(_, _)
SumSquares(xs, mean) ==
  IF xs = <<>> THEN Whole(0)
  ELSE LET d == Sub(xs[Len(xs)], mean)
       IN  Add(SumSquares(SubSeq(xs, 1, Len(xs) - 1), mean), Mul(d, d))

Period == 2          \* config.period of the indicator
MaxFed == 5          \* trades the input stream of process delivers

Oversold == 30
Overbought == 70
StdDevMultiplier == 2
HighVolatilityThreshold == 30
TRADING_DAYS_PER_YEAR == 252

IndicatorNames == {"SMA", "EMA", "RSI", "Bollinger Bands", "Volatility"}
ConfigSymbol == "AAPL"
IndicatorPrices == 10..(10 + Period)

\* the trades of the input stream: the configured symbol at every price, and
\* one trade of another symbol
InputTrades ==
  [symbol : {ConfigSymbol}, price : IndicatorPrices] \cup {[symbol |-> "GOOGL", price |-> 10]}

Emit(a, state) == [accum |-> a, out |-> <<state>>]
Skip(a) == [accum |-> a, out |-> <<>>]

\* ---- MovingAverage.ts
CalculateSMA(prices) ==
  IF Len(prices) = 0 THEN Whole(0) ELSE Div(Sum(prices), Whole(Len(prices)))

RECURSIVE EmaLoop(_, _, _, _)
EmaLoop(prices, i, ema, multiplier) ==
  IF i > Len(prices) THEN ema
  ELSE EmaLoop(prices, i + 1,
               Add(Mul(prices[i], multiplier), Mul(ema, Sub(Whole(1), multiplier))),
               multiplier)

CalculateEMA(prices, period) ==
  IF Len(prices) = 0 THEN Whole(0)
  ELSE IF Len(prices) = 1 THEN prices[1]
  ELSE EmaLoop(prices, 2, prices[1], Div(Whole(2), Whole(period + 1)))

MAProcess(cfg, state, trade) ==
  LET newPrices == Slice(Append(state.prices, Whole(trade.price)), 0 - cfg.period)
      newMA == IF cfg.name = "SMA" THEN CalculateSMA(newPrices)
               ELSE CalculateEMA(newPrices, cfg.period)
      newState == [prices |-> newPrices, currentMA |-> newMA]
  IN  IF Len(newPrices) >= cfg.period
      THEN Emit(newState,
                [name |-> cfg.name, symbol |-> ConfigSymbol, value |-> newMA,
                 metadata |-> [period |-> cfg.period, priceCount |-> Len(newPrices),
                               currentPrice |-> Whole(trade.price)]])
      ELSE Skip(newState)

MASignal(state) ==
  LET currentPrice == state.metadata.currentPrice
      ma == state.value
  IN  IF Gt(currentPrice, Mul(ma, Fin((102 * Scale) \div 100)))
      THEN [tag |-> "buy", strength |-> Fin((6 * Scale) \div 10), reason |-> "Price above MA"]
      ELSE IF Lt(currentPrice, Mul(ma, Fin((98 * Scale) \div 100)))
      THEN [tag |-> "sell", strength |-> Fin((6 * Scale) \div 10), reason |-> "Price below MA"]
      ELSE [tag |-> "hold"]

\* ---- RSI.ts
\* no loss read as a neutral market
CalculateRSINeutral(avgGain, avgLoss) ==
  IF avgLoss = Whole(0) THEN Whole(50)
  ELSE Sub(Whole(100), Div(Whole(100), Add(Whole(1), Div(avgGain, avgLoss))))

CalculateRSI(avgGain, avgLoss) ==
  IF avgLoss = Whole(0) THEN Whole(100)
  ELSE Sub(Whole(100), Div(Whole(100), Add(Whole(1), Div(avgGain, avgLoss))))

\* the averages are left at 0 until `period` deltas are in
RSIProcessUnseeded(cfg, state, trade) ==
  LET newPrices == Append(state.prices, Whole(trade.price))
  IN  IF Len(newPrices) < 2 THEN Skip([state EXCEPT !.prices = newPrices])
      ELSE
        LET change == Sub(newPrices[Len(newPrices)], newPrices[Len(newPrices) - 1])
            gain == IF Gt(change, Whole(0)) THEN change ELSE Whole(0)
            loss == IF Lt(change, Whole(0)) THEN Neg(change) ELSE Whole(0)
            newGains == Slice(Append(state.gains, gain), 0 - cfg.period)
            newLosses == Slice(Append(state.losses, loss), 0 - cfg.period)
            warm == Len(newGains) < cfg.period
            avgGain == IF warm THEN state.avgGain
                       ELSE Div(Add(Mul(state.avgGain, Whole(cfg.period - 1)), gain),
                                Whole(cfg.period))
            avgLoss == IF warm THEN state.avgLoss
                       ELSE Div(Add(Mul(state.avgLoss, Whole(cfg.period - 1)), loss),
                                Whole(cfg.period))
            rsi == CalculateRSI(avgGain, avgLoss)
            newState == [prices |-> Slice(newPrices, 0 - cfg.period - 1),
                         gains |-> newGains, losses |-> newLosses,
                         avgGain |-> avgGain, avgLoss |-> avgLoss]
        IN  IF Len(newGains) >= cfg.period
            THEN Emit(newState,
                      [name |-> "RSI", symbol |-> ConfigSymbol, value |-> rsi,
                       metadata |-> [period |-> cfg.period, avgGain |-> avgGain,
                                     avgLoss |-> avgLoss,
                                     currentPrice |-> Whole(trade.price),
                                     oversold |-> Whole(Oversold),
                                     overbought |-> Whole(Overbought)]])
            ELSE Skip(newState)

RSIProcess(cfg, state, trade) ==
  LET newPrices == Append(state.prices, Whole(trade.price))
  IN  IF Len(newPrices) < 2 THEN Skip([state EXCEPT !.prices = newPrices])
      ELSE
        LET change == Sub(newPrices[Len(newPrices)], newPrices[Len(newPrices) - 1])
            gain == IF Gt(change, Whole(0)) THEN change ELSE Whole(0)
            loss == IF Lt(change, Whole(0)) THEN Neg(change) ELSE Whole(0)
            newGains == Slice(Append(state.gains, gain), 0 - cfg.period)
            newLosses == Slice(Append(state.losses, loss), 0 - cfg.period)
            warm == Len(newGains) < cfg.period
            avgGain == IF warm THEN Div(Sum(newGains), Whole(Len(newGains)))
                       ELSE Div(Add(Mul(state.avgGain, Whole(cfg.period - 1)), gain),
                                Whole(cfg.period))
            avgLoss == IF warm THEN Div(Sum(newLosses), Whole(Len(newLosses)))
                       ELSE Div(Add(Mul(state.avgLoss, Whole(cfg.period - 1)), loss),
                                Whole(cfg.period))
            rsi == CalculateRSI(avgGain, avgLoss)
            newState == [prices |-> Slice(newPrices, 0 - cfg.period - 1),
                         gains |-> newGains, losses |-> newLosses,
                         avgGain |-> avgGain, avgLoss |-> avgLoss]
        IN  IF Len(newGains) >= cfg.period
            THEN Emit(newState,
                      [name |-> "RSI", symbol |-> ConfigSymbol, value |-> rsi,
                       metadata |-> [period |-> cfg.period, avgGain |-> avgGain,
                                     avgLoss |-> avgLoss,
                                     currentPrice |-> Whole(trade.price),
                                     oversold |-> Whole(Oversold),
                                     overbought |-> Whole(Overbought)]])
            ELSE Skip(newState)

RSISignal(state) ==
  LET rsi == state.value
      oversold == state.metadata.oversold
      overbought == state.metadata.overbought
  IN  IF Lt(rsi, oversold)
      THEN [tag |-> "buy", strength |-> MinOne(Div(Sub(oversold, rsi), oversold)),
            reason |-> "RSI oversold at"]
      ELSE IF Gt(rsi, overbought)
      THEN [tag |-> "sell",
            strength |-> MinOne(Div(Sub(rsi, overbought), Sub(Whole(100), overbought))),
            reason |-> "RSI overbought at"]
      ELSE [tag |-> "hold"]

\* ---- BollingerBands.ts
BandStdDev(prices, mean) ==
  IF Len(prices) = 0 THEN Whole(0)
  ELSE Sqrt(Div(SumSquares(prices, mean), Whole(Len(prices))))

BollingerProcess(cfg, state, trade) ==
  LET newPrices == Slice(Append(state.prices, Whole(trade.price)), 0 - cfg.period)
      newState == [prices |-> newPrices]
  IN  IF Len(newPrices) >= cfg.period
      THEN LET sma == CalculateSMA(newPrices)
               stdDev == BandStdDev(newPrices, sma)
               upperBand == Add(sma, Mul(stdDev, Whole(StdDevMultiplier)))
               lowerBand == Sub(sma, Mul(stdDev, Whole(StdDevMultiplier)))
               bandwidth == Mul(Div(Sub(upperBand, lowerBand), sma), Whole(100))
               percentB == Div(Sub(Whole(trade.price), lowerBand), Sub(upperBand, lowerBand))
           IN  Emit(newState,
                    [name |-> "Bollinger Bands", symbol |-> ConfigSymbol, value |-> sma,
                     metadata |-> [period |-> cfg.period, upperBand |-> upperBand,
                                   lowerBand |-> lowerBand, stdDev |-> stdDev,
                                   bandwidth |-> bandwidth, percentB |-> percentB,
                                   currentPrice |-> Whole(trade.price)]])
      ELSE Skip(newState)

BollingerSignal(state) ==
  LET currentPrice == state.metadata.currentPrice
      upperBand == state.metadata.upperBand
      lowerBand == state.metadata.lowerBand
      percentB == state.metadata.percentB
  IN  IF Le(currentPrice, lowerBand)
      THEN [tag |-> "buy", strength |-> MinOne(Abs(percentB)),
            reason |-> "Price at/below lower band"]
      ELSE IF Ge(currentPrice, upperBand)
      THEN [tag |-> "sell", strength |-> MinOne(percentB),
            reason |-> "Price at/above upper band"]
      ELSE [tag |-> "hold"]

\* ---- Volatility.ts
VolatilityMethods == {"stdDev", "atr", "parkinson"}

CalculateStdDevVolatility(returns) ==
  IF Len(returns) = 0 THEN Whole(0)
  ELSE LET mean == Div(Sum(returns), Whole(Len(returns)))
           variance == Div(SumSquares(returns, mean), Whole(Len(returns)))
       IN  Mul(Sqrt(Mul(variance, Whole(TRADING_DAYS_PER_YEAR))), Whole(100))

CalculateReturn(currentPrice, previousPrice) ==
  IF previousPrice = Whole(0) THEN Whole(0)
  ELSE Div(Sub(currentPrice, previousPrice), previousPrice)

VolatilityProcess(cfg, state, trade) ==
  LET newPrices == Slice(Append(state.prices, Whole(trade.price)), 0 - cfg.period - 1)
      newReturns ==
        IF Len(newPrices) >= 2
        THEN Slice(Append(state.returns,
                          CalculateReturn(newPrices[Len(newPrices)],
                                          newPrices[Len(newPrices) - 1])),
                   0 - cfg.period)
        ELSE state.returns
      newState == [prices |-> newPrices, returns |-> newReturns]
  IN  IF Len(newReturns) >= cfg.period
      THEN LET volatility ==
                 CASE cfg.method = "stdDev" -> CalculateStdDevVolatility(newReturns)
                   [] cfg.method = "atr" -> CalculateStdDevVolatility(newReturns)
                   [] cfg.method = "parkinson" ->
                        Mul(CalculateStdDevVolatility(newReturns),
                            Fin((167 * Scale) \div 100))
               recentVol == CalculateStdDevVolatility(Slice(newReturns, 0 - 5))
               volChange == Mul(Div(Sub(recentVol, volatility), volatility), Whole(100))
           IN  Emit(newState,
                    [name |-> "Volatility", symbol |-> ConfigSymbol, value |-> volatility,
                     metadata |-> [period |-> cfg.period,
                                   method |-> cfg.method,
                                   currentPrice |-> Whole(trade.price),
                                   recentVolatility |-> recentVol,
                                   volatilityChange |-> volChange,
                                   threshold |-> Whole(HighVolatilityThreshold)]])
      ELSE Skip(newState)

VolatilitySignal(state) ==
  LET volatility == state.value
      threshold == state.metadata.threshold
      volChange == state.metadata.volatilityChange
  IN  IF Gt(volatility, threshold) /\ Gt(volChange, Whole(0))
      THEN [tag |-> "sell", strength |-> MinOne(Div(Sub(volatility, threshold), threshold)),
            reason |-> "High volatility"]
      ELSE IF Lt(volatility, Mul(threshold, Fin((5 * Scale) \div 10))) /\ Lt(volChange, Whole(0))
      THEN [tag |-> "buy", strength |-> Fin((4 * Scale) \div 10), reason |-> "Low volatility"]
      ELSE [tag |-> "hold"]

\* ---- the indicator as a service
InitialAccum(name) ==
  CASE name \in {"SMA", "EMA"} -> [prices |-> <<>>, currentMA |-> Whole(0)]
    [] name = "RSI" -> [prices |-> <<>>, gains |-> <<>>, losses |-> <<>>,
                        avgGain |-> Whole(0), avgLoss |-> Whole(0)]
    [] name = "Bollinger Bands" -> [prices |-> <<>>]
    [] name = "Volatility" -> [prices |-> <<>>, returns |-> <<>>]

\* the function handed to Stream.mapAccum
Process(cfg, state, trade) ==
  CASE cfg.name \in {"SMA", "EMA"} -> MAProcess(cfg, state, trade)
    [] cfg.name = "RSI" -> RSIProcess(cfg, state, trade)
    [] cfg.name = "Bollinger Bands" -> BollingerProcess(cfg, state, trade)
    [] cfg.name = "Volatility" -> VolatilityProcess(cfg, state, trade)

\* indicator.signal(state)
Signal(state) ==
  CASE state.name \in {"SMA", "EMA"} -> MASignal(state)
    [] state.name = "RSI" -> RSISignal(state)
    [] state.name = "Bollinger Bands" -> BollingerSignal(state)
    [] state.name = "Volatility" -> VolatilitySignal(state)

\* every trade passes, whatever its symbol
SymbolFilterOpen(trade) == TRUE
\* Stream.filter((t) => t.symbol === config.symbol)
SymbolFilter(trade) == trade.symbol = ConfigSymbol

\* the indicator's layer is built from its configuration
Provide ==
  /\ indicator.name = "none"
  /\ \E name \in IndicatorNames :
       \E method \in (IF name = "Volatility" THEN VolatilityMethods ELSE {"none"}) :
         /\ indicator' = [name |-> name, period |-> Period, method |-> method]
         /\ accum' = InitialAccum(name)
  /\ UNCHANGED <<fed, states, emitAt, collected, consensus>>
  /\ UNCHANGED <<brokerVars, orderVars, decodeVars, statsVars, viewVars, utilVars, sessionVars, fanVars, subscriberVars, commandVars>>

\* one trade of the input stream passes Stream.filter, Stream.mapAccum and
\* Stream.filterMap of process
ProcessTrade ==
  /\ indicator.name # "none"
  /\ Len(fed) < MaxFed
  /\ \E trade \in InputTrades :
       /\ fed' = Append(fed, trade)
       /\ IF SymbolFilter(trade)
          THEN LET r == Process(indicator, accum, trade)
               IN  /\ accum' = r.accum
                   /\ states' = states \o r.out
                   /\ emitAt' = IF r.out = <<>> THEN emitAt ELSE Append(emitAt, Len(fed'))
          ELSE UNCHANGED <<accum, states, emitAt>>
  /\ UNCHANGED <<indicator, collected, consensus>>
  /\ UNCHANGED <<brokerVars, orderVars, decodeVars, statsVars, viewVars, utilVars, sessionVars, fanVars, subscriberVars, commandVars>>

IndicatorNext == Provide \/ ProcessTrade

IndicatorSpec == Init /\ [][IndicatorNext]_vars

\* the trades of the configured symbol among the first n trades fed
Matching(n) == Cardinality({i \in 1..n : fed[i].symbol = ConfigSymbol})

\* C23 as claimed: nothing is emitted before `period` matching trades, every
\* matching trade from the period-th on yields a state, and trades of other
\* symbols yield none.
C23_Original ==
  indicator.name # "none" =>
    /\ \A i \in 1..Len(emitAt) :
         /\ fed[emitAt[i]].symbol = ConfigSymbol
         /\ Matching(emitAt[i]) >= indicator.period
    /\ \A n \in 1..Len(fed) :
         (fed[n].symbol = ConfigSymbol /\ Matching(n) >= indicator.period)
           => \E i \in 1..Len(emitAt) : emitAt[i] = n

\* matching trades an indicator needs before its first state: RSI and
\* Volatility work on the differences of consecutive prices
WarmUp(cfg) ==
  IF cfg.name \in {"RSI", "Volatility"} THEN cfg.period + 1 ELSE cfg.period

\* C23: SMA, EMA and Bollinger emit exactly one state for every matching trade
\* from the period-th on, RSI and Volatility from the (period + 1)-th on, and
\* none before; trades of other symbols neither count nor yield a state.
C23_WarmUp ==
  indicator.name # "none" =>
    /\ Len(states) = Len(emitAt)
    /\ \A i \in 1..Len(emitAt) :
         /\ fed[emitAt[i]].symbol = ConfigSymbol
         /\ Matching(emitAt[i]) >= WarmUp(indicator)
         /\ \A j \in 1..Len(emitAt) : emitAt[i] = emitAt[j] => i = j
    /\ \A n \in 1..Len(fed) :
         (fed[n].symbol = ConfigSymbol /\ Matching(n) >= WarmUp(indicator))
           => \E i \in 1..Len(emitAt) : emitAt[i] = n

\* RSI has emitted for two matching trades with a trade of another symbol
\* among the trades fed during warm-up
C23_Witness ==
  /\ indicator.name = "RSI"
  /\ Len(states) >= 2
  /\ \E n \in 1..Len(fed) : fed[n].symbol # ConfigSymbol /\ n < emitAt[1]

\* C24: the signal of every state an indicator's process emits, when it is a
\* Buy or a Sell, has a strength that is a number between 0 and 1.
C24_StrengthInUnitInterval ==
  \A i \in 1..Len(states) :
    LET sig == Signal(states[i])
    IN  sig.tag \in {"buy", "sell"} =>
          /\ sig.strength.k = "num"
          /\ 0 <= sig.strength.v
          /\ sig.strength.v <= Scale

\* the trades of the configured symbol among the first n trades fed, in order
MatchingTrades(n) == SelectSeq(SubSeq(fed, 1, n), SymbolFilter)

StrictlyIncreasing(trades) ==
  \A i \in 1..(Len(trades) - 1) : trades[i].price < trades[i + 1].price

Overbought100(state) ==
  /\ state.value = Whole(100)
  /\ Signal(state) = [tag |-> "sell", strength |-> Whole(1), reason |-> "RSI overbought at"]

\* C25: an RSI state whose averaged loss is 0 has value 100 and its signal is
\* Sell with strength 1 and the overbought reason; RSI(period) fed period + 1
\* strictly increasing prices of its symbol emits such a state.
C25_RSIWithoutLoss ==
  indicator.name = "RSI" =>
    /\ \A i \in 1..Len(states) :
         states[i].metadata.avgLoss = Whole(0) => Overbought100(states[i])
    /\ (Len(states) >= 1 /\ StrictlyIncreasing(MatchingTrades(emitAt[1])))
         => Overbought100(states[1])

\* RSI has emitted its first state after period + 1 strictly increasing prices
C25_Witness ==
  /\ indicator.name = "RSI"
  /\ Len(states) >= 1
  /\ Len(MatchingTrades(emitAt[1])) = indicator.period + 1
  /\ StrictlyIncreasing(MatchingTrades(emitAt[1]))

\* --------------------------------------------------------- signal aggregator
MaxSignals == 3      \* signals handed to one aggregate call

\* the signals of the indicators: Buy and Sell at strength 0.3, 0.6 and 1, Hold
Strengths == {Fin((3 * Scale) \div 10), Fin((6 * Scale) \div 10), Whole(1)}
SignalInputs ==
  [tag : {"buy", "sell"}, strength : Strengths, reason : {"r"}] \cup {[tag |-> "hold"]}

\* the for loop over the signals: votes weighted by strength
RECURSIVE Scores(_)
Scores(signals) ==
  IF signals = <<>>
  THEN [buyScore |-> Whole(0), sellScore |-> Whole(0), holdCount |-> 0, reasons |-> 0]
  ELSE LET sc == Scores(SubSeq(signals, 1, Len(signals) - 1))
           signal == signals[Len(signals)]
       IN  IF signal.tag = "buy"
           THEN [sc EXCEPT !.buyScore = Add(@, signal.strength), !.reasons = @ + 1]
           ELSE IF signal.tag = "sell"
           THEN [sc EXCEPT !.sellScore = Add(@, signal.strength), !.reasons = @ + 1]
           ELSE [sc EXCEPT !.holdCount = @ + 1]

\* a tie of the two scores counts as a buy majority
AggregateTieBuys(signals) ==
  IF Len(signals) = 0 THEN [tag |-> "hold"]
  ELSE LET sc == Scores(signals)
           totalSignals == Whole(Len(signals))
           floor == Mul(totalSignals, Fin((3 * Scale) \div 10))
       IN  IF Ge(sc.buyScore, sc.sellScore) /\ Gt(sc.buyScore, floor)
           THEN [tag |-> "buy", strength |-> MinOne(Div(sc.buyScore, totalSignals)),
                 reason |-> "Consensus buy", reasons |-> sc.reasons]
           ELSE IF Gt(sc.sellScore, sc.buyScore) /\ Gt(sc.sellScore, floor)
           THEN [tag |-> "sell", strength |-> MinOne(Div(sc.sellScore, totalSignals)),
                 reason |-> "Consensus sell", reasons |-> sc.reasons]
           ELSE [tag |-> "hold"]

\* SignalAggregatorLive.aggregate(signals)
Aggregate(signals) ==
  IF Len(signals) = 0 THEN [tag |-> "hold"]
  ELSE LET sc == Scores(signals)
           totalSignals == Whole(Len(signals))
           floor == Mul(totalSignals, Fin((3 * Scale) \div 10))
       IN  IF Gt(sc.buyScore, sc.sellScore) /\ Gt(sc.buyScore, floor)
           THEN [tag |-> "buy", strength |-> MinOne(Div(sc.buyScore, totalSignals)),
                 reason |-> "Consensus buy", reasons |-> sc.reasons]
           ELSE IF Gt(sc.sellScore, sc.buyScore) /\ Gt(sc.sellScore, floor)
           THEN [tag |-> "sell", strength |-> MinOne(Div(sc.sellScore, totalSignals)),
                 reason |-> "Consensus sell", reasons |-> sc.reasons]
           ELSE [tag |-> "hold"]

\* one call of aggregate on the signals collected from the indicators
AggregateSignals ==
  /\ consensus.tag = "none"
  /\ \E signals \in SeqsUpTo(SignalInputs, MaxSignals) \cup {<<>>} :
       /\ collected' = signals
       /\ consensus' = Aggregate(signals)
  /\ UNCHANGED <<indicator, accum, fed, states, emitAt>>
  /\ UNCHANGED <<brokerVars, orderVars, decodeVars, statsVars, viewVars, utilVars, sessionVars, fanVars, subscriberVars, commandVars>>

AggregateNext == AggregateSignals

AggregateSpec == Init /\ [][AggregateNext]_vars

\* the sum of the strengths, in units of 1 / Scale, of the signals with a tag
RECURSIVE StrengthSum(_, _)
StrengthSum(signals, tag) ==
  IF signals = <<>> THEN 0
  ELSE (IF Head(signals).tag = tag THEN Head(signals).strength.v ELSE 0)
         + StrengthSum(Tail(signals), tag)

\* C26: aggregate returns Hold for no signals; otherwise Buy with strength
\* min(1, buyScore / n) exactly when buyScore > sellScore and
\* buyScore > 0.3 * n, Sell with strength min(1, sellScore / n) exactly when
\* sellScore > buyScore and sellScore > 0.3 * n, and Hold in every other case.
C26_WeightedVote ==
  consensus.tag # "none" =>
    LET n == Len(collected)
        buyScore == StrengthSum(collected, "buy")
        sellScore == StrengthSum(collected, "sell")
        third == (3 * Scale) \div 10
        buys == n > 0 /\ buyScore > sellScore /\ buyScore > third * n
        sells == n > 0 /\ sellScore > buyScore /\ sellScore > third * n
    IN  /\ consensus.tag = "buy" <=> buys
        /\ consensus.tag = "sell" <=> sells
        /\ consensus.tag = "hold" <=> ~buys /\ ~sells
        /\ buys => consensus.strength = Fin(Min(Scale, Nearest(buyScore, n)))
        /\ sells => consensus.strength = Fin(Min(Scale, Nearest(sellScore, n)))

\* a tie of two non-zero scores above the floor has been aggregated to Hold
C26_Witness ==
  /\ consensus.tag = "hold"
  /\ StrengthSum(collected, "buy") = StrengthSum(collected, "sell")
  /\ StrengthSum(collected, "buy") * 10 > 3 * Scale * Len(collected)

\* ------------------------------------------ StatsCollector and the view model
MaxViewTrades == 3   \* trades published in one run
MaxRecent == 2       \* UIStateConfig.maxTrades, scaled down from 20

\* StatsCollectorConfig.windowConfig
CollectorWindow == [tag |-> "EventBased", size |-> WindowSize, durationMs |-> 0]

\* Statistics.emptyStats(windowConfig)
EmptyStatsOf(cfg) ==
  [windowConfig |-> cfg, count |-> 0, pricePoints |-> <<>>, lastUpdateTime |-> 0]

\* Statistics.updateStats(self, price, volume, timestamp)
UpdateStatsOf(self, price, volume, timestamp) ==
  LET pricePoint == [price |-> price, volume |-> volume, timestamp |-> timestamp]
      newPricePoints == Append(self.pricePoints, pricePoint)
  IN  [windowConfig |-> self.windowConfig,
       count |-> self.count + 1,
       pricePoints |-> ApplyWindow(self.windowConfig, newPricePoints, timestamp),
       lastUpdateTime |-> timestamp]

\* a fresh map holding the one entry
SetEntryAlone(map, key, value) == [x \in {key} |-> value]
\* new Map(statsMap).set(symbol, updatedStats)
SetEntry(map, key, value) ==
  [x \in DOMAIN map \cup {key} |-> IF x = key THEN value ELSE map[x]]

\* the function handed to Ref.update
UpdateMap(statsMap, tradeData) ==
  LET currentStats == IF tradeData.symbol \in DOMAIN statsMap
                      THEN statsMap[tradeData.symbol]
                      ELSE EmptyStatsOf(CollectorWindow)
      updatedStats == UpdateStatsOf(currentStats, tradeData.price, tradeData.volume,
                                    tradeData.timestamp)
  IN  SetEntry(statsMap, tradeData.symbol, updatedStats)

\* Array.prototype.slice(start, end)
SliceRange(xs, start, end) ==
  LET from == IF start < 0 THEN Max(Len(xs) + start, 0) ELSE Min(start, Len(xs))
      to == IF end < 0 THEN Max(Len(xs) + end, 0) ELSE Min(end, Len(xs))
  IN  SubSeq(xs, from + 1, to)

\* UIState.empty(symbols, maxTrades)
Empty == [recentTrades |-> <<>>, statistics |-> <<>>]

\* the trade is appended behind the older ones
AddTradeBehind(state, trade) ==
  [state EXCEPT !.recentTrades = SliceRange(@ \o <<trade>>, 0, MaxRecent)]
\* UIState.addTrade(state, trade)
AddTrade(state, trade) ==
  [state EXCEPT !.recentTrades = SliceRange(<<trade>> \o @, 0, MaxRecent)]

\* the function of the combined Stream.scan
Combine(state, update) ==
  IF update.type = "trade" THEN update.state
  ELSE [state EXCEPT !.statistics = update.stats]

\* the provider's next trade reaches the broker
PublishTrade ==
  /\ Len(published) < MaxViewTrades
  /\ \E symbol \in Symbols :
       published' = Append(published,
                           [symbol |-> symbol, price |-> 12, volume |-> 1,
                            timestamp |-> Len(published) + 1])
  /\ UNCHANGED <<collectorPos, uiPos, statsRef, tradeState, lastStats, uiState>>
  /\ UNCHANGED <<brokerVars, orderVars, decodeVars, statsVars, indicatorVars, utilVars, sessionVars, fanVars, subscriberVars, commandVars>>

\* StatsCollector.start: Stream.runForEach handles its next trade
CollectTrade ==
  /\ collectorPos < Len(published)
  /\ statsRef' = UpdateMap(statsRef, published[collectorPos + 1])
  /\ collectorPos' = collectorPos + 1
  /\ UNCHANGED <<published, uiPos, tradeState, lastStats, uiState>>
  /\ UNCHANGED <<brokerVars, orderVars, decodeVars, statsVars, indicatorVars, utilVars, sessionVars, fanVars, subscriberVars, commandVars>>

\* Stream.scan of tradeStream emits its initial state first
EmitSeed ==
  /\ ~tradeState.seeded
  /\ tradeState' = [tradeState EXCEPT !.seeded = TRUE]
  /\ uiState' = Combine(uiState, [type |-> "trade", state |-> tradeState.state])
  /\ UNCHANGED <<published, collectorPos, uiPos, statsRef, lastStats>>
  /\ UNCHANGED <<brokerVars, orderVars, decodeVars, statsVars, indicatorVars, utilVars, sessionVars, fanVars, subscriberVars, commandVars>>

\* the view model's subscription delivers its next trade: tradeStream scans
\* it and the combined scan takes the result as a trade update
TradeUpdate ==
  /\ tradeState.seeded
  /\ uiPos < Len(published)
  /\ LET state == AddTrade(tradeState.state, published[uiPos + 1])
     IN  /\ tradeState' = [tradeState EXCEPT !.state = state]
         /\ uiState' = Combine(uiState, [type |-> "trade", state |-> state])
  /\ uiPos' = uiPos + 1
  /\ UNCHANGED <<published, collectorPos, statsRef, lastStats>>
  /\ UNCHANGED <<brokerVars, orderVars, decodeVars, statsVars, indicatorVars, utilVars, sessionVars, fanVars, subscriberVars, commandVars>>

\* a tick of Schedule.spaced(100 ms) reads the Ref; Stream.changes lets the
\* map through when it differs from the one before, and the combined scan
\* takes it as a stats update
StatsTick ==
  /\ ~lastStats.seen \/ lastStats.stats # statsRef
  /\ lastStats' = [seen |-> TRUE, stats |-> statsRef]
  /\ uiState' = Combine(uiState, [type |-> "stats", stats |-> statsRef])
  /\ UNCHANGED <<published, collectorPos, uiPos, statsRef, tradeState>>
  /\ UNCHANGED <<brokerVars, orderVars, decodeVars, statsVars, indicatorVars, utilVars, sessionVars, fanVars, subscriberVars, commandVars>>

ViewNext == PublishTrade \/ CollectTrade \/ EmitSeed \/ TradeUpdate \/ StatsTick

ViewSpec == Init /\ [][ViewNext]_vars

\* the fibers of the collector and of the atom's stream keep running, and the
\* schedule keeps ticking
ViewFairness ==
  /\ WF_vars(CollectTrade)
  /\ WF_vars(EmitSeed)
  /\ WF_vars(TradeUpdate)
  /\ WF_vars(StatsTick)

FairViewSpec == Init /\ [][ViewNext]_vars /\ ViewFairness

\* a sequence in reverse order
Reversed(seq) == [i \in 1..Len(seq) |-> seq[Len(seq) + 1 - i]]

\* the last min(k, MaxRecent) of the first k published trades, newest first
LastObserved(k) == Reversed(Suffix(SubSeq(published, 1, k), MaxRecent))

\* C27: after the view model has observed t1..tk, recentTrades is the last
\* min(k, maxTrades) of them, newest first, so eviction drops the oldest and
\* keeps the order of the rest.
C27_RecentTradesNewestFirst ==
  /\ tradeState.state.recentTrades = LastObserved(uiPos)
  /\ uiState.recentTrades = LastObserved(uiPos)

\* more trades than maxTrades have been observed: the oldest was evicted
C27_Witness ==
  /\ uiPos > MaxRecent
  /\ Len(uiState.recentTrades) = MaxRecent
  /\ uiState.recentTrades[1] = published[uiPos]

\* C28: in the combined scan a trade update changes recentTrades only and
\* leaves statistics as it was, and a stats update changes statistics only
\* and leaves recentTrades as it was.
C28_UpdatesAreFramed ==
  [][ /\ uiPos' # uiPos => uiState'.statistics = uiState.statistics
      /\ lastStats' # lastStats => uiState'.recentTrades = uiState.recentTrades ]_vars

\* updateStats folded over trades, from emptyStats of the collector's window
RECURSIVE FoldStats(_)
FoldStats(trades) ==
  IF trades = <<>> THEN EmptyStatsOf(CollectorWindow)
  ELSE LET t == trades[Len(trades)]
       IN  UpdateStatsOf(FoldStats(SubSeq(trades, 1, Len(trades) - 1)),
                         t.price, t.volume, t.timestamp)

\* the trades of a symbol among those the collector has handled, in order
HandledOf(symbol) ==
  LET Is(t) == t.symbol = symbol
  IN  SelectSeq(SubSeq(published, 1, collectorPos), Is)

\* C29: the map entry of a symbol is the fold of updateStats over exactly that
\* symbol's trades among those the collector has handled, in arrival order,
\* its count is their number, and a symbol without trades has no entry; a
\* read of the Ref between two updates loses none of them.
C29_EntryIsFoldOfOwnTrades ==
  /\ DOMAIN statsRef = {symbol \in Symbols : HandledOf(symbol) # <<>>}
  /\ \A symbol \in DOMAIN statsRef :
       /\ statsRef[symbol] = FoldStats(HandledOf(symbol))
       /\ statsRef[symbol].count = Len(HandledOf(symbol))
  /\ lastStats.seen =>
       \A symbol \in DOMAIN lastStats.stats :
         /\ symbol \in DOMAIN statsRef
         /\ lastStats.stats[symbol].count <= statsRef[symbol].count

\* both symbols have an entry, one of them folded from two trades, and the
\* view model has read the map between two updates
C29_Witness ==
  /\ DOMAIN statsRef = Symbols
  /\ \E symbol \in Symbols : statsRef[symbol].count >= 2
  /\ lastStats.seen
  /\ lastStats.stats # <<>>
  /\ lastStats.stats # statsRef

\* C30: once trades stop arriving, the view model eventually shows, and
\* keeps showing, the collector's latest map together with the last
\* recentTrades.
C30_EventuallyLatestStats ==
  <>[](/\ uiState.statistics = statsRef
       /\ uiState.recentTrades = LastObserved(Len(published)))

\* -------------------------------------------------- TradePubSub stream filters
MaxFiltered == 5     \* trades the subscription delivers to the filtered stream

\* the symbols of the filter tests
FilterSymbols == {"AAPL", "MSFT", "GOOGL", "TSLA"}

\* every trade passes
KeepsAll(f, trade) == TRUE
\* the predicate of Stream.filter: trade.symbol === symbol for filterBySymbol,
\* symbolSet.has(trade.symbol) for filterBySymbols
Keeps(f, trade) ==
  IF f.fn = "filterBySymbol" THEN trade.symbol = f.symbol
  ELSE trade.symbol \in f.symbolSet

\* filterBySymbol(symbol) or filterBySymbols(symbols) is applied to the stream
ApplyFilter ==
  /\ symbolFilter.fn = "none"
  /\ \/ \E symbol \in FilterSymbols :
          symbolFilter' = [fn |-> "filterBySymbol", symbol |-> symbol, symbolSet |-> {}]
     \/ \E symbols \in SUBSET FilterSymbols :
          symbolFilter' = [fn |-> "filterBySymbols", symbol |-> "none", symbolSet |-> symbols]
  /\ UNCHANGED <<inTrades, filtered>>
  /\ UNCHANGED <<brokerVars, orderVars, decodeVars, statsVars, indicatorVars, viewVars, sessionVars, fanVars, subscriberVars, commandVars>>

\* the subscription delivers a trade and Stream.filter lets it through or not
FilterTrade ==
  /\ symbolFilter.fn # "none"
  /\ Len(inTrades) < MaxFiltered
  /\ \E symbol \in FilterSymbols :
       LET trade == [symbol |-> symbol, id |-> Len(inTrades) + 1]
       IN  /\ inTrades' = Append(inTrades, trade)
           /\ filtered' = IF Keeps(symbolFilter, trade) THEN Append(filtered, trade)
                          ELSE filtered
  /\ UNCHANGED symbolFilter
  /\ UNCHANGED <<brokerVars, orderVars, decodeVars, statsVars, indicatorVars, viewVars, sessionVars, fanVars, subscriberVars, commandVars>>

FilterNext == ApplyFilter \/ FilterTrade

FilterSpec == Init /\ [][FilterNext]_vars

\* the symbols a filter was built for
Wanted(f) == IF f.fn = "filterBySymbol" THEN {f.symbol} ELSE f.symbolSet

SymbolsOf(trades) == [i \in 1..Len(trades) |-> trades[i].symbol]

\* C31: the filtered stream holds exactly the delivered trades whose symbol
\* is in S (equals s), in delivery order, each once.
C31_FilterKeepsWanted ==
  symbolFilter.fn # "none" =>
    LET IsWanted(t) == t.symbol \in Wanted(symbolFilter)
    IN  filtered = SelectSeq(inTrades, IsWanted)

\* the filter for {AAPL, GOOGL} over [AAPL, MSFT, GOOGL, TSLA, AAPL] has
\* emitted [AAPL, GOOGL, AAPL]
C31_Witness ==
  /\ symbolFilter.fn = "filterBySymbols"
  /\ symbolFilter.symbolSet = {"AAPL", "GOOGL"}
  /\ SymbolsOf(inTrades) = <<"AAPL", "MSFT", "GOOGL", "TSLA", "AAPL">>
  /\ SymbolsOf(filtered) = <<"AAPL", "GOOGL", "AAPL">>

\* ------------------------------------------------ provider session on the socket
MaxSymbols == 3      \* symbols given on the command line

SessionSymbols == {"AAPL", "GOOGL", "MSFT"}

\* JSON.stringify({ action: "auth", params: apiKey })
AuthFrame == [action |-> "auth", params |-> <<"apiKey">>]

\* the frames onOpen writes: Polygon one subscribe frame with all symbols,
\* Finnhub one subscribe frame per symbol
SubscribeFrames(prov, symbols) ==
  IF prov = "polygon" THEN <<[action |-> "subscribe", params |-> symbols]>>
  ELSE [i \in 1..Len(symbols) |-> [action |-> "subscribe", params |-> <<symbols[i]>>]]

\* the WebSocketPublisherConfig layer is built from the --symbol option
ConfigurePublisher ==
  /\ ~publisherConfig.built
  /\ \E symbols \in SeqsUpTo(SessionSymbols, MaxSymbols) :
       publisherConfig' = [built |-> TRUE, symbols |-> symbols]
  /\ UNCHANGED <<startPc, latch, sockPc, toWrite, sent>>
  /\ UNCHANGED <<brokerVars, orderVars, decodeVars, statsVars, indicatorVars, viewVars, utilVars, fanVars, subscriberVars, commandVars>>

\* start runs provider.authenticate of Finnhub: a log line
FinnhubAuthenticate ==
  /\ provider = "finnhub"
  /\ publisherConfig.built
  /\ startPc = "start"
  /\ startPc' = "authd"
  /\ UNCHANGED <<publisherConfig, latch, sockPc, toWrite, sent>>
  /\ UNCHANGED <<brokerVars, orderVars, decodeVars, statsVars, indicatorVars, viewVars, utilVars, fanVars, subscriberVars, commandVars>>

\* start runs provider.authenticate of Polygon up to write(authMsg)
PolygonAuthenticate ==
  /\ provider = "polygon"
  /\ publisherConfig.built
  /\ startPc = "start"
  /\ startPc' = "authWrite"
  /\ UNCHANGED <<publisherConfig, latch, sockPc, toWrite, sent>>
  /\ UNCHANGED <<brokerVars, orderVars, decodeVars, statsVars, indicatorVars, viewVars, utilVars, fanVars, subscriberVars, commandVars>>

\* the write of ws.writer: it waits for the latch, which runRaw opens once the
\* connection is open, and then sends the frame
WriteFrame(fiber) ==
  /\ latch = "open"
  /\ \/ /\ fiber = "start"
        /\ startPc = "authWrite"
        /\ sent' = Append(sent, AuthFrame)
        /\ startPc' = "authd"
        /\ UNCHANGED <<sockPc, toWrite>>
     \/ /\ fiber = "socket"
        /\ sockPc = "onOpen"
        /\ toWrite # <<>>
        /\ sent' = Append(sent, Head(toWrite))
        /\ toWrite' = Tail(toWrite)
        /\ sockPc' = IF Tail(toWrite) = <<>> THEN "listening" ELSE sockPc
        /\ UNCHANGED startPc
  /\ UNCHANGED <<publisherConfig, latch>>
  /\ UNCHANGED <<brokerVars, orderVars, decodeVars, statsVars, indicatorVars, viewVars, utilVars, fanVars, subscriberVars, commandVars>>

\* start runs Stream.runForEach(provider.subscribe(symbols), ...): the stream
\* forks ws.runRaw, which connects
SubscribeStream ==
  /\ startPc = "authd"
  /\ startPc' = "streaming"
  /\ sockPc' = "connecting"
  /\ UNCHANGED <<publisherConfig, latch, toWrite, sent>>
  /\ UNCHANGED <<brokerVars, orderVars, decodeVars, statsVars, indicatorVars, viewVars, utilVars, fanVars, subscriberVars, commandVars>>

\* the connection is open: runRaw opens the latch and runs onOpen
SocketOpened ==
  /\ sockPc = "connecting"
  /\ latch' = "open"
  /\ sockPc' = "onOpen"
  /\ toWrite' = SubscribeFrames(provider, publisherConfig.symbols)
  /\ UNCHANGED <<publisherConfig, startPc, sent>>
  /\ UNCHANGED <<brokerVars, orderVars, decodeVars, statsVars, indicatorVars, viewVars, utilVars, fanVars, subscriberVars, commandVars>>

SessionNext ==
  \/ ChooseProvider
  \/ ConfigurePublisher
  \/ FinnhubAuthenticate
  \/ PolygonAuthenticate
  \/ \E fiber \in {"start", "socket"} : WriteFrame(fiber)
  \/ SubscribeStream
  \/ SocketOpened

\* start and the runRaw fiber keep running
SessionFairness ==
  /\ WF_vars(FinnhubAuthenticate)
  /\ WF_vars(PolygonAuthenticate)
  /\ \A fiber \in {"start", "socket"} : WF_vars(WriteFrame(fiber))
  /\ WF_vars(SubscribeStream)
  /\ WF_vars(SocketOpened)

FairSessionSpec == Init /\ [][SessionNext]_vars /\ SessionFairness

IsPrefix(a, b) == Len(a) <= Len(b) /\ a = SubSeq(b, 1, Len(a))

PolygonSession == <<AuthFrame>> \o SubscribeFrames("polygon", publisherConfig.symbols)

\* C32: with Polygon, authenticate followed by subscribe ends the authenticate
\* step and sends exactly one auth frame and then exactly one subscribe frame
\* carrying all symbols, never the subscribe frame first.
C32_AuthThenSubscribe ==
  /\ [](provider = "polygon" => IsPrefix(sent, PolygonSession))
  /\ (provider = "polygon" /\ publisherConfig.built)
       ~> (startPc \in {"authd", "streaming"} /\ sent = PolygonSession)

\* ------------------------------------------------------------- RSI averaging
\* the gain and the loss of the k-th price delta of a sequence of trades
GainAt(trades, k) ==
  LET change == trades[k + 1].price - trades[k].price
  IN  IF change > 0 THEN Whole(change) ELSE Whole(0)
LossAt(trades, k) ==
  LET change == trades[k + 1].price - trades[k].price
  IN  IF change < 0 THEN Whole(0 - change) ELSE Whole(0)

\* the simple mean of the gains (losses) of the first n deltas
MeanGain(trades, n) == Div(Sum([k \in 1..n |-> GainAt(trades, k)]), Whole(n))
MeanLoss(trades, n) == Div(Sum([k \in 1..n |-> LossAt(trades, k)]), Whole(n))

\* G' = (G * (period - 1) + gain) / period
Wilder(avg, x, period) == Div(Add(Mul(avg, Whole(period - 1)), x), Whole(period))

\* 100 - 100 / (1 + G / L) over the sums of the first n gains and losses, and
\* 100 where there is no loss
RSIOfSums(trades, n) ==
  LET g == Sum([k \in 1..n |-> GainAt(trades, k)])
      l == Sum([k \in 1..n |-> LossAt(trades, k)])
  IN  IF l = Whole(0) THEN Whole(100)
      ELSE Sub(Whole(100), Div(Whole(100), Add(Whole(1), Div(g, l))))

\* two numbers that differ by no more than tol units of 1 / Scale
Near(a, b, tol) ==
  IF a.k = "num" /\ b.k = "num" THEN Abs(Sub(a, b)).v <= tol ELSE a = b

\* the rounding behind an RSI value: a tenth of a point
ValueRounding == Scale \div 10

\* C33: the first RSI state, emitted at the period-th price delta, carries the
\* simple means of the gains and of the losses of the first `period` deltas
\* and the value 100 - 100 / (1 + sum of gains / sum of losses), 100 where
\* there is no loss; every later state carries the Wilder smoothing of the
\* averages of the state before it. Equality is up to the rounding of the
\* arithmetic: one unit in an average, a tenth of a point in the value.
C33_SimpleMeansThenWilder ==
  indicator.name = "RSI" =>
    \A i \in 1..Len(states) :
      LET trades == MatchingTrades(emitAt[i])
          period == indicator.period
          meta == states[i].metadata
      IN  IF i = 1
          THEN /\ Len(trades) = period + 1
               /\ Near(meta.avgGain, MeanGain(trades, period), 1)
               /\ Near(meta.avgLoss, MeanLoss(trades, period), 1)
               /\ Near(states[i].value, RSIOfSums(trades, period), ValueRounding)
          ELSE /\ meta.avgGain =
                    Wilder(states[i - 1].metadata.avgGain,
                           GainAt(trades, Len(trades) - 1), period)
               /\ meta.avgLoss =
                    Wilder(states[i - 1].metadata.avgLoss,
                           LossAt(trades, Len(trades) - 1), period)

\* RSI has emitted a first state with gains and losses among its deltas, and a
\* second state after it
C33_Witness ==
  /\ indicator.name = "RSI"
  /\ Len(states) >= 2
  /\ states[1].metadata.avgGain # Whole(0)
  /\ states[1].metadata.avgLoss # Whole(0)
  /\ states[2].metadata.avgGain # states[1].metadata.avgGain

\* --------------------------------------------------------- volatility methods
\* process of an indicator built from cfg, run over a whole stream of trades:
\* the states it emits and the accumulator it ends with
RECURSIVE ProcessAll(_, _)
ProcessAll(cfg, trades) ==
  IF trades = <<>> THEN [accum |-> InitialAccum(cfg.name), out |-> <<>>]
  ELSE LET before == ProcessAll(cfg, SubSeq(trades, 1, Len(trades) - 1))
           trade == trades[Len(trades)]
       IN  IF SymbolFilter(trade)
           THEN LET r == Process(cfg, before.accum, trade)
                IN  [accum |-> r.accum, out |-> before.out \o r.out]
           ELSE before

\* two runs that emit the same values and the same signals
SameValues(xs, ys) ==
  /\ Len(xs) = Len(ys)
  /\ \A i \in 1..Len(xs) :
       /\ xs[i].value = ys[i].value
       /\ Signal(xs[i]) = Signal(ys[i])

\* C34: for the same period, symbol and trades, Volatility under method atr
\* and under method parkinson emits the values and the signals it emits under
\* method stdDev.
C34_MethodsAgree ==
  indicator.name = "Volatility" =>
    SameValues(states, ProcessAll([indicator EXCEPT !.method = "stdDev"], fed).out)

\* ------------------------------------------------- subscribeAllIndicators
MaxDelivered == 4    \* trades published while subscribeAllIndicators runs

\* the indicators in the order subscribeAllIndicators runs them
IndicatorOrder == <<"RSI", "MA", "BB", "VWAP", "VOL">>

\* the statement after the five Stream.runForEach
AggregateStep == Len(IndicatorOrder) + 1

OtherVars == <<brokerVars, orderVars, decodeVars, statsVars, indicatorVars, viewVars,
               utilVars, sessionVars>>

\* PubSub.subscribe(pubsub), Stream.fromQueue(dequeue), the services are
\* resolved and the first Stream.runForEach begins
SubscribeAllIndicators ==
  /\ allPc = 0
  /\ allPc' = 1
  /\ dequeue' = <<>>
  /\ UNCHANGED <<hub, delivered, consumed>>
  /\ UNCHANGED <<OtherVars, subscriberVars, commandVars>>

\* the publisher publishes a trade; it reaches the subscription if there is one
PublishToIndicators ==
  /\ hub = "open"
  /\ allPc # 0
  /\ Len(delivered) < MaxDelivered
  /\ delivered' = Append(delivered, Len(delivered) + 1)
  /\ dequeue' = Append(dequeue, Len(delivered) + 1)
  /\ UNCHANGED <<allPc, hub, consumed>>
  /\ UNCHANGED <<OtherVars, subscriberVars, commandVars>>

\* the running Stream.runForEach pulls the next trade into its indicator
RunIndicator ==
  /\ allPc \in 1..Len(IndicatorOrder)
  /\ dequeue # <<>>
  /\ consumed' = [consumed EXCEPT ![IndicatorOrder[allPc]] = Append(@, Head(dequeue))]
  /\ dequeue' = Tail(dequeue)
  /\ UNCHANGED <<allPc, hub, delivered>>
  /\ UNCHANGED <<OtherVars, subscriberVars, commandVars>>

\* the broker is shut down: what waits in the queue is dropped
ShutdownHub ==
  /\ hub = "open"
  /\ hub' = "shutdown"
  /\ dequeue' = <<>>
  /\ UNCHANGED <<allPc, delivered, consumed>>
  /\ UNCHANGED <<OtherVars, subscriberVars, commandVars>>

\* Stream.fromQueue ends with the queue, the running Stream.runForEach
\* returns and the next statement of subscribeAllIndicators begins
IndicatorStreamEnds ==
  /\ allPc \in 1..Len(IndicatorOrder)
  /\ hub = "shutdown"
  /\ allPc' = allPc + 1
  /\ UNCHANGED <<hub, dequeue, delivered, consumed>>
  /\ UNCHANGED <<OtherVars, subscriberVars, commandVars>>

\* aggregator.aggregate(allSignals) and the consensus is logged
AggregateAll ==
  /\ allPc = AggregateStep
  /\ allPc' = AggregateStep + 1
  /\ UNCHANGED <<hub, dequeue, delivered, consumed>>
  /\ UNCHANGED <<OtherVars, subscriberVars, commandVars>>

FanNext ==
  \/ SubscribeAllIndicators
  \/ PublishToIndicators
  \/ RunIndicator
  \/ ShutdownHub
  \/ IndicatorStreamEnds
  \/ AggregateAll

\* the fiber of subscribeAllIndicators keeps running; nothing obliges the
\* publisher to publish or the broker to shut down
FanFairness ==
  /\ WF_vars(SubscribeAllIndicators)
  /\ WF_vars(RunIndicator)
  /\ WF_vars(IndicatorStreamEnds)
  /\ WF_vars(AggregateAll)

FairFanSpec == Init /\ [][FanNext]_vars /\ FanFairness

\* C35: while the broker is open, each of the five indicators eventually
\* processes every trade delivered on the subscription, none waiting for the
\* stream of another to finish.
C35_IndicatorsRunIndependently ==
  \A i \in 1..Len(IndicatorOrder) :
    \A k \in 1..MaxDelivered :
      (Len(delivered) >= k) ~> (hub = "shutdown" \/ Len(consumed[IndicatorOrder[i]]) >= k)

\* ------------------------------------------------------------ createSubscriber
MaxHandled == 3      \* trades the subscriber's stream emits

\* how the effect the handler returns can exit
HandlerExits == {"success", "fail", "die"}

\* Effect.catchAll with the logging recovery: typed failures only
CatchAll(exit) ==
  IF exit = "fail" THEN [exit |-> "success", logged |-> TRUE]
  ELSE [exit |-> exit, logged |-> FALSE]

\* Effect.catchAllCause((cause) => Effect.logError(...)): every cause, failure
\* or defect, is logged and the effect succeeds
CatchAllCause(exit) ==
  IF exit # "success" THEN [exit |-> "success", logged |-> TRUE]
  ELSE [exit |-> exit, logged |-> FALSE]

\* the stream emits its next trade
StreamEmits ==
  /\ ~streamEnd
  /\ arrived < MaxHandled
  /\ arrived' = arrived + 1
  /\ UNCHANGED <<streamEnd, invoked, errorLog, subExit>>
  /\ UNCHANGED <<OtherVars, fanVars, commandVars>>

\* the stream ends
StreamEnds ==
  /\ ~streamEnd
  /\ streamEnd' = TRUE
  /\ UNCHANGED <<arrived, invoked, errorLog, subExit>>
  /\ UNCHANGED <<OtherVars, fanVars, commandVars>>

\* one step of Stream.runForEach: the handler on the next trade, wrapped in
\* catchAllCause; an exit other than success ends the subscriber with it
HandleTrade ==
  /\ subExit = "running"
  /\ Len(invoked) < arrived
  /\ \E exit \in HandlerExits :
       LET trade == Len(invoked) + 1
           wrapped == CatchAllCause(exit)
       IN  /\ invoked' = Append(invoked, [trade |-> trade, exit |-> exit])
           /\ errorLog' = IF wrapped.logged THEN Append(errorLog, trade) ELSE errorLog
           /\ subExit' = IF wrapped.exit = "success" THEN subExit ELSE wrapped.exit
  /\ UNCHANGED <<arrived, streamEnd>>
  /\ UNCHANGED <<OtherVars, fanVars, commandVars>>

\* Stream.runForEach returns once the ended stream is drained
SubscriberReturns ==
  /\ subExit = "running"
  /\ streamEnd
  /\ Len(invoked) = arrived
  /\ subExit' = "success"
  /\ UNCHANGED <<arrived, streamEnd, invoked, errorLog>>
  /\ UNCHANGED <<OtherVars, fanVars, commandVars>>

SubscriberNext == StreamEmits \/ StreamEnds \/ HandleTrade \/ SubscriberReturns

\* the subscriber's fiber keeps running
SubscriberFairness == WF_vars(HandleTrade) /\ WF_vars(SubscriberReturns)

FairSubscriberSpec == Init /\ [][SubscriberNext]_vars /\ SubscriberFairness

\* the trades whose handler did not succeed, in the order of invocation
Failed(calls) ==
  LET bad == SelectSeq(calls, LAMBDA c : c.exit # "success")
  IN  [i \in 1..Len(bad) |-> bad[i].trade]

\* C36: the subscriber never exits with a failure or a defect; the handler is
\* invoked on the trades in stream order, whatever its earlier exits; each
\* failure or defect is logged; and every trade the stream emits is eventually
\* handed to the handler.
C36_HandlerErrorsDoNotStop ==
  /\ [](/\ subExit \in {"running", "success"}
        /\ \A i \in 1..Len(invoked) : invoked[i].trade = i
        /\ errorLog = Failed(invoked)
        /\ subExit = "success" => Len(invoked) = arrived)
  /\ \A k \in 1..MaxHandled : (arrived >= k) ~> (Len(invoked) >= k)

\* the handler has failed on one trade, died on the next and was invoked again
C36_Witness ==
  /\ Len(invoked) >= 3
  /\ invoked[1].exit = "fail"
  /\ invoked[2].exit = "die"
  /\ invoked[3].exit = "success"
  /\ subExit = "success"

\* ---------------------------------------------- the command and its consumers
\* statsCollector.start, forked by the command, begins to run over the dequeue
\* its layer subscribed; this variant subscribes only now
StartCollectorSubscribing ==
  /\ scope = "open"
  /\ collectorPc = "forked"
  /\ collectorPc' = "running"
  /\ startedAt' = Len(log)
  /\ pos' = [pos EXCEPT !["stats"] = Len(log)]
  /\ joinedAt' = [joinedAt EXCEPT !["stats"] = Len(log)]
  /\ ResumeSuspended(pos', Attached)
  /\ UNCHANGED <<orderVars, decodeVars, statsVars, indicatorVars, viewVars, utilVars,
                 sessionVars, fanVars, subscriberVars>>
  /\ UNCHANGED <<scope, sock, authFailed, emitQ, emitted, st, forkedAt, received>>
\* statsCollector.start, forked by the command, begins to run over the dequeue
\* its layer subscribed when it was built
StartCollector ==
  /\ scope = "open"
  /\ collectorPc = "forked"
  /\ collectorPc' = "running"
  /\ startedAt' = Len(log)
  /\ UNCHANGED <<orderVars, decodeVars, statsVars, indicatorVars, viewVars, utilVars,
                 sessionVars, fanVars, subscriberVars>>
  /\ UNCHANGED brokerVars

\* Stream.runForEach of the running start task takes from the dequeue
CollectorTake ==
  /\ collectorPc = "running"
  /\ Take("stats")

CommandNext ==
  \/ Authenticate
  \/ ProviderSubscribe
  \/ ProcessMessage(Symbols, MaxTrades)
  \/ SocketError
  \/ PublishNext
  \/ StartCollector
  \/ CollectorTake
  \/ Fork("ui")
  \/ Subscribe("ui")
  \/ Take("ui")
  \/ Interrupt

CommandSpec == Init /\ [][CommandNext]_vars

\* the trades of one symbol in a sequence of trades
CountOf(trades, symbol) == Cardinality({i \in 1..Len(trades) : trades[i] = symbol})

\* the collector's start task runs and nothing waits in its queue
CollectorDrained ==
  /\ st["stats"] = "attached"
  /\ collectorPc = "running"
  /\ Undelivered("stats") = 0

\* C37: once the collector's start task has drained its queue, it has handled,
\* for each symbol, as many trades as were published for that symbol since its
\* layer was built, also those published before start began to run.
C37_CollectorMissesNothing ==
  CollectorDrained =>
    \A symbol \in Symbols : CountOf(received["stats"], symbol) = CountOf(log, symbol)

\* start began to run after a trade had been published, and has drained its
\* queue of trades of both symbols
C37_Witness ==
  /\ CollectorDrained
  /\ startedAt > 0
  /\ \A symbol \in Symbols : CountOf(log, symbol) >= 1

\* the UI atom's stream runs and nothing waits on its subscription
ViewDrained == st["ui"] = "attached" /\ Undelivered("ui") = 0

\* C38: once the collector and the view-model scan have both drained, the
\* trades the scan has added to recentTrades are as many as the per-symbol
\* counts of the statistics sum up to.
C38_SameTradesObserved ==
  (CollectorDrained /\ ViewDrained) => Len(received["ui"]) = Len(received["stats"])

====
